---------------------------- MODULE Spec2Model ----------------------------
(***************************************************************************)
(* Model of the Ondo Global Markets settlement core (programs/ondo-gm):    *)
(* attestation-gated mint / redeem of a GM token against USDon or USDC,    *)
(* with the oracle sanity check, the two-level rate limiter, the           *)
(* trading-hours gate and the replay-guard records.                        *)
(*                                                                         *)
(* Scope.  One GM mint is modelled.  The accounts of an instruction are    *)
(* the ones derived from (user, mint, attestation id): the Anchor account  *)
(* constraints and TokenManager::validate (token-account wiring) are not   *)
(* part of the model.  Role checks are Anchor constraints as well: the     *)
(* administrative actions below are the calls of a signer holding the      *)
(* role.  keccak256 is modelled as an injective function (the tuple of     *)
(* the hashed fields).  All amounts explored are far below 2^64, so the    *)
(* checked u64 / u128 operations of the source never overflow here.        *)
(***************************************************************************)
EXTENDS Integers, Sequences, FiniteSets, TLC

(***************************************************************************)
(* Program constants (constants.rs)                                        *)
(***************************************************************************)
SECONDS_PER_DAY == 86400
SECONDS_PER_HOUR == 3600
MAX_ATTESTATION_EXPIRATION == 30
MAX_SECONDS_EXPIRATION == 365 * SECONDS_PER_DAY
DEFAULT_LIMIT_WINDOW == 3600
PRICE_SCALING_FACTOR == 1000000000
BASIS_POINTS_DIVISOR == 10000
GM_TOKEN_DECIMALS == 9
USDON_DECIMALS == 9
USDC_DECIMALS == 6
USDC_PRICE_DECIMALS == 8
MIN_PRICE == 98000000
CONFIDENCE_THRESHOLD == 1
BUY == 48
SELL == 49
CHAIN_ID == "EtWTRABZaYq6iMfeYKouRu166VU2xqa1wcaWoxPkrZBG"
USDC_PYTH_ORACLE_ADDRESS == "Dpw1EAVrSB1ibxiDQyTAW6Zip3J4Btk2x4SgApQCeFbX"
SECP256K1_PROGRAM == "KeccakSecp256k11111111111111111111111111111"
ZERO_ADDRESS == "0x0000000000000000000000000000000000000000"

(***************************************************************************)
(* Option<T>: None is the empty set, Some(v) the singleton.                *)
(***************************************************************************)
None == {}
Some(v) == {v}
IsSome(o) == o # {}
IsNone(o) == o = {}
Unwrap(o) == CHOOSE v \in o : TRUE
UnwrapOr(o, d) == IF o = {} THEN d ELSE CHOOSE v \in o : TRUE

(***************************************************************************)
(* Result<T>: a value result carries val, a unit result carries the        *)
(* working copy of the accounts as the handler left it when it returned.   *)
(***************************************************************************)
OkV(v) == [ok |-> TRUE, err |-> "Ok", val |-> v]
ErrV(e) == [ok |-> FALSE, err |-> e, val |-> 0]
Ok(st) == [ok |-> TRUE, err |-> "Ok", st |-> st]
Err(e, st) == [ok |-> FALSE, err |-> e, st |-> st]

(***************************************************************************)
(* Arithmetic.  Rust's / on i64 truncates toward zero; rem_euclid is the   *)
(* non-negative remainder.                                                 *)
(***************************************************************************)
TruncDiv(a, b) == IF a >= 0 THEN a \div b ELSE -((-a) \div b)
RemEuclid(a, b) == a % b

\* u64::MAX.  The model's unsigned word has 30 bits instead of 64: every
\* amount and price of the model fits, and an overflow is within reach.
U64_MAX == 1073741823

RECURSIVE Pow10(_)
Pow10(k) == IF k = 0 THEN 1 ELSE 10 * Pow10(k - 1)

\* let v = ...; F(v): v is computed once and bound in F.
Then(v, F(_)) == F(v)

\* r?; F(st): an error of r is returned, otherwise the handler goes on
\* with the accounts as r left them.
AndThen(r, F(_)) == IF r.ok THEN F(r.st) ELSE r

\* let x = v?; F(x), in a handler working on st.
Try(v, st, F(_)) == IF v.ok THEN F(v.val) ELSE Err(v.err, st)

\* <<q, r>> with a * b = q * d + r and 0 <= r < d, for 0 <= a < d: the
\* double-width product of mul_div, summed over the bits of b.  t is
\* a * 2^i and acc the sum so far, both as quotient and remainder by d, so
\* that no intermediate exceeds 2 * d.
RECURSIVE MulAcc(_, _, _, _)
MulAcc(b, d, t, acc) ==
    IF b = 0 THEN acc
    ELSE MulAcc(b \div 2, d,
                <<2 * t[1] + ((2 * t[2]) \div d), (2 * t[2]) % d>>,
                IF b % 2 = 1
                THEN <<acc[1] + t[1] + ((acc[2] + t[2]) \div d), (acc[2] + t[2]) % d>>
                ELSE acc)

MulQR(a, b, d) == MulAcc(b, d, <<0, a>>, <<0, 0>>)

\* A faulty variant: the quotient is always rounded down.
mul_div_rounding_down(n0, n1, d, round_up) ==
    IF d = 0 THEN ErrV("DivideByZero")
    ELSE Then(MulQR(n0 % d, n1, d), LAMBDA h : OkV((n0 \div d) * n1 + h[1]))

\* u64::try_from(v) of a value v = hi * n + lo that was computed in double
\* width: the conversion fails when v exceeds U64_MAX.  The comparison is
\* made by division, so that no intermediate exceeds 2 * U64_MAX.
try_from(hi, n, lo) ==
    IF hi > 0 /\ n > U64_MAX \div hi THEN ErrV("MathOverflow")
    ELSE IF lo > U64_MAX - hi * n THEN ErrV("MathOverflow")
    ELSE OkV(hi * n + lo)

\* A faulty variant: the round-up addend is d instead of d - 1.
mul_div_adding_divisor(n0, n1, d, round_up) ==
    IF d = 0 THEN ErrV("DivideByZero")
    ELSE Then(MulQR(n0 % d, n1, d), LAMBDA h :
         try_from(n0 \div d, n1, h[1] + ((h[2] + (IF round_up THEN d ELSE 0)) \div d)))

\* utils/mul_div.rs: (n0 * n1 + (d - 1 if round_up)) / d, with
\* n0 * n1 = pq * d + pr.  The product and the sum are taken in u128,
\* where neither checked_mul nor checked_add can fail for u64 operands.
mul_div(n0, n1, d, round_up) ==
    IF d = 0 THEN ErrV("DivideByZero")
    ELSE Then(MulQR(n0 % d, n1, d), LAMBDA h :
         try_from(n0 \div d, n1, h[1] + ((h[2] + (IF round_up THEN d - 1 ELSE 0)) \div d)))

\* A faulty variant: rounding up adds d instead of d - 1.
normalize_decimals_adding_divisor(amount, from_decimals, to_decimals, round_up) ==
    IF to_decimals > from_decimals
    THEN try_from(Pow10(to_decimals - from_decimals), amount, 0)
    ELSE IF from_decimals > to_decimals
    THEN Then(Pow10(from_decimals - to_decimals), LAMBDA d :
         OkV((amount + (IF round_up THEN d ELSE 0)) \div d))
    ELSE OkV(amount)

\* utils/decimals.rs: scaling up is a checked_mul in u64; scaling down is
\* (amount + (d - 1 if round_up)) / d in u128, which always fits in u64.
normalize_decimals(amount, from_decimals, to_decimals, round_up) ==
    IF to_decimals > from_decimals
    THEN try_from(Pow10(to_decimals - from_decimals), amount, 0)
    ELSE IF from_decimals > to_decimals
    THEN Then(Pow10(from_decimals - to_decimals), LAMBDA d :
         OkV((amount + (IF round_up THEN d - 1 ELSE 0)) \div d))
    ELSE OkV(amount)

\* A faulty variant: capacity never decays inside the window.
calculate_capacity_used_without_decay(time_since_last_update, limit_window, capacity_used, rate_limit) ==
    IF time_since_last_update < 0 THEN ErrV("NegativeTimeSinceLastUpdate")
    ELSE IF time_since_last_update >= limit_window THEN OkV(0)
    ELSE OkV(capacity_used)

\* A faulty variant: the capacity is not restored at the end of the window.
calculate_capacity_used_without_window_end(time_since_last_update, limit_window, capacity_used, rate_limit) ==
    IF time_since_last_update < 0 THEN ErrV("NegativeTimeSinceLastUpdate")
    ELSE Then(mul_div(rate_limit, time_since_last_update, limit_window, FALSE), LAMBDA decay :
         IF ~decay.ok THEN decay
         ELSE IF capacity_used > decay.val THEN OkV(capacity_used - decay.val)
         ELSE OkV(0))

\* A faulty variant: the decay is rounded up.
calculate_capacity_used_rounding_up(time_since_last_update, limit_window, capacity_used, rate_limit) ==
    IF time_since_last_update < 0 THEN ErrV("NegativeTimeSinceLastUpdate")
    ELSE IF time_since_last_update >= limit_window THEN OkV(0)
    ELSE Then(mul_div(rate_limit, time_since_last_update, limit_window, TRUE), LAMBDA decay :
         IF ~decay.ok THEN decay
         ELSE IF capacity_used > decay.val THEN OkV(capacity_used - decay.val)
         ELSE OkV(0))

\* A faulty variant: the decay runs one second ahead.
calculate_capacity_used_decaying_early(time_since_last_update, limit_window, capacity_used, rate_limit) ==
    IF time_since_last_update < 0 THEN ErrV("NegativeTimeSinceLastUpdate")
    ELSE IF time_since_last_update >= limit_window THEN OkV(0)
    ELSE Then(mul_div(rate_limit, time_since_last_update + 1, limit_window, FALSE), LAMBDA decay :
         IF ~decay.ok THEN decay
         ELSE IF capacity_used > decay.val THEN OkV(capacity_used - decay.val)
         ELSE OkV(0))

\* utils/capacity.rs
calculate_capacity_used(time_since_last_update, limit_window, capacity_used, rate_limit) ==
    IF time_since_last_update < 0 THEN ErrV("NegativeTimeSinceLastUpdate")
    ELSE IF time_since_last_update >= limit_window THEN OkV(0)
    ELSE Then(mul_div(rate_limit, time_since_last_update, limit_window, FALSE), LAMBDA decay :
         IF ~decay.ok THEN decay
         ELSE IF capacity_used > decay.val THEN OkV(capacity_used - decay.val)
         ELSE OkV(0))

(***************************************************************************)
(* External token service (SPL token / Token-2022 CPIs).  bal maps an       *)
(* asset name to the balances of its token accounts; a transfer or burn of *)
(* more than the source holds fails.                                       *)
(***************************************************************************)
Vault == "vault"

transfer_checked(st, asset, from, to, amount) ==
    IF st.bal[asset][from] < amount THEN Err("InsufficientFunds", st)
    ELSE Ok([st EXCEPT !.bal[asset][from] = @ - amount,
                       !.bal[asset][to] = @ + amount])

mint_to(st, asset, to, amount) ==
    Ok([st EXCEPT !.bal[asset][to] = @ + amount])

burn_checked(st, asset, from, amount) ==
    IF st.bal[asset][from] < amount THEN Err("InsufficientFunds", st)
    ELSE Ok([st EXCEPT !.bal[asset][from] = @ - amount])

(***************************************************************************)
(* GMTokenManagerState (state/gmtoken_manager_state.rs)                    *)
(***************************************************************************)
\* A faulty variant: the id is returned but not stored.
next_execution_id_without_storing(st) ==
    Then(UnwrapOr(st.gm.execution_id, 0) + 1, LAMBDA next_id :
    [ok |-> TRUE, err |-> "Ok", val |-> next_id, st |-> st])

next_execution_id(st) ==
    Then(UnwrapOr(st.gm.execution_id, 0) + 1, LAMBDA next_id :
    [ok |-> TRUE, err |-> "Ok", val |-> next_id,
     st |-> [st EXCEPT !.gm.execution_id = Some(next_id)]])

validate_trading_hours_offset(trading_hours_offset) ==
    IF ~(-12 * SECONDS_PER_HOUR <= trading_hours_offset
         /\ trading_hours_offset <= 14 * SECONDS_PER_HOUR)
    THEN ErrV("MaximumOffsetExceeded")
    ELSE OkV(0)

\* adjusted_timestamp / SECONDS_PER_DAY: the division of i64 truncates
\* toward zero.
days_since_epoch(offset, timestamp) == TruncDiv(timestamp + offset, SECONDS_PER_DAY)

day_of_week(offset, timestamp) == RemEuclid(days_since_epoch(offset, timestamp) + 3, 7)

\* A faulty variant: only the Sundays are closed.
check_is_valid_hours_closing_sundays(st, timestamp) ==
    IF day_of_week(st.gm.trading_hours_offset, timestamp) < 6
    THEN Ok(st) ELSE Err("OutsideMarketHours", st)

check_is_valid_hours(st, timestamp) ==
    IF day_of_week(st.gm.trading_hours_offset, timestamp) < 5
    THEN Ok(st) ELSE Err("OutsideMarketHours", st)

(***************************************************************************)
(* TokenManager (instructions/token_manager.rs)                            *)
(***************************************************************************)
\* Rent::get()?.minimum_balance(8 + Attestation::INIT_SPACE), in lamports.
RentExemptMinimum == 2

\* A faulty variant: the record is written whether or not it exists.
initialize_attestation_account_overwriting(st, user, attestation_id, timestamp) ==
    Ok([st EXCEPT !.attestation[attestation_id] =
            Some([creator |-> user, created_at |-> timestamp,
                  lamports |-> RentExemptMinimum])])

\* The user funds the new account with the rent-exempt minimum of its
\* size (the system program's transfer fails if the user has less).
initialize_attestation_account(st, user, attestation_id, timestamp) ==
    IF IsNone(st.attestation[attestation_id])
    THEN IF st.bal["lamports"][user] < RentExemptMinimum
         THEN Err("InsufficientLamports", st)
         ELSE Ok([st EXCEPT !.bal["lamports"][user] = @ - RentExemptMinimum,
                            !.attestation[attestation_id] =
                                Some([creator |-> user, created_at |-> timestamp,
                                      lamports |-> RentExemptMinimum])])
    ELSE Err("AttestationAlreadyUsed", st)

\* A faulty variant: the price is left out of the digest.
calculate_quote_hash_without_price(chain_id, attestation_id, side, user, asset, price, amount, expiration) ==
    <<chain_id, attestation_id, side, user, asset, 0, amount, expiration>>

calculate_quote_hash(chain_id, attestation_id, side, user, asset, price, amount, expiration) ==
    <<chain_id, attestation_id, side, user, asset, price, amount, expiration>>

\* A faulty variant: the address is compared before the digest.
secp_matches_address_first(ix_idx, ix, digest, eth_addr) ==
    IF ix.data_len = 0 THEN ErrV("MalformedSecpIx")
    ELSE IF ix.num_sigs # 1 THEN ErrV("WrongSigCount")
    ELSE IF ~(ix.data_len >= 1 + 11) THEN ErrV("MalformedSecpIx")
    ELSE IF ix.msg_len # 32 THEN ErrV("WrongDigestLen")
    ELSE IF ~(ix.msg_off + ix.msg_len <= ix.data_len) THEN ErrV("MalformedSecpIx")
    ELSE IF ~(ix.eth_off + 20 <= ix.data_len) THEN ErrV("MalformedSecpIx")
    ELSE IF ix.sig_ix # ix_idx THEN ErrV("MissingOrMismatchedSecpIx")
    ELSE IF ix.eth_ix # ix_idx THEN ErrV("MissingOrMismatchedSecpIx")
    ELSE IF ix.msg_ix # ix_idx THEN ErrV("MissingOrMismatchedSecpIx")
    ELSE IF ix.eth_addr # eth_addr THEN ErrV("AddressMismatch")
    ELSE IF ix.msg # digest THEN ErrV("DigestMismatch")
    ELSE OkV(1)

secp_matches(ix_idx, ix, digest, eth_addr) ==
    IF ix.data_len = 0 THEN ErrV("MalformedSecpIx")
    ELSE IF ix.num_sigs # 1 THEN ErrV("WrongSigCount")
    ELSE IF ~(ix.data_len >= 1 + 11) THEN ErrV("MalformedSecpIx")
    ELSE IF ix.msg_len # 32 THEN ErrV("WrongDigestLen")
    ELSE IF ~(ix.msg_off + ix.msg_len <= ix.data_len) THEN ErrV("MalformedSecpIx")
    ELSE IF ~(ix.eth_off + 20 <= ix.data_len) THEN ErrV("MalformedSecpIx")
    ELSE IF ix.sig_ix # ix_idx THEN ErrV("MissingOrMismatchedSecpIx")
    ELSE IF ix.eth_ix # ix_idx THEN ErrV("MissingOrMismatchedSecpIx")
    ELSE IF ix.msg_ix # ix_idx THEN ErrV("MissingOrMismatchedSecpIx")
    ELSE IF ix.msg # digest THEN ErrV("DigestMismatch")
    ELSE IF ix.eth_addr # eth_addr THEN ErrV("AddressMismatch")
    ELSE OkV(1)

\* tx: the instructions sysvar as the trade sees it: its own index and the
\* instruction before it.
verify_secp256k1_ix(tx, expected_digest32, expected_eth_address20) ==
    IF ~(tx.current_ix_idx > 0) THEN ErrV("MissingOrMismatchedSecpIx")
    ELSE IF tx.prev.program_id # SECP256K1_PROGRAM THEN ErrV("MissingOrMismatchedSecpIx")
    ELSE secp_matches(tx.current_ix_idx - 1, tx.prev, expected_digest32,
                      expected_eth_address20)

\* A faulty variant: an unset signer is compared like any other.
verify_attestation_with_unset_signer(st, c, chain_id, side) ==
    Then(verify_secp256k1_ix(c.tx,
             calculate_quote_hash(chain_id, c.attestation_id, side, c.user, c.mint,
                                  c.price, c.amount, c.expiration),
             st.gm.attestation_signer_secp), LAMBDA v :
    IF v.ok THEN Ok(st) ELSE Err(v.err, st))

verify_attestation(st, c, chain_id, side) ==
    IF st.gm.attestation_signer_secp = ZERO_ADDRESS
    THEN Err("AttestationSignerEthAddressNotSet", st)
    ELSE Then(verify_secp256k1_ix(c.tx,
                  calculate_quote_hash(chain_id, c.attestation_id, side, c.user, c.mint,
                                       c.price, c.amount, c.expiration),
                  st.gm.attestation_signer_secp), LAMBDA v :
         IF v.ok THEN Ok(st) ELSE Err(v.err, st))

\* A faulty variant: the two ends of the band are rejected.
sanity_check_excluding_bounds(st, price, current_timestamp) ==
    Then(mul_div(st.sc.last_price, st.sc.allowed_deviation_bps,
                 BASIS_POINTS_DIVISOR, FALSE).val, LAMBDA deviation :
    IF deviation > st.sc.last_price THEN Err("MathOverflow", st)
    ELSE IF price >= st.sc.last_price + deviation THEN Err("PriceExceedsMaxDeviation", st)
    ELSE IF price <= st.sc.last_price - deviation THEN Err("PriceBelowMinDeviation", st)
    ELSE IF current_timestamp - st.sc.price_last_updated > st.sc.max_time_delay
         THEN Err("MaxTimeDelayExceeded", st)
    ELSE Ok(st))

\* A faulty variant: an accepted price becomes the last price.
sanity_check_storing_price(st, price, current_timestamp) ==
    Then(mul_div(st.sc.last_price, st.sc.allowed_deviation_bps,
                 BASIS_POINTS_DIVISOR, FALSE).val, LAMBDA deviation :
    IF deviation > st.sc.last_price THEN Err("MathOverflow", st)
    ELSE IF price > st.sc.last_price + deviation THEN Err("PriceExceedsMaxDeviation", st)
    ELSE IF price < st.sc.last_price - deviation THEN Err("PriceBelowMinDeviation", st)
    ELSE IF current_timestamp - st.sc.price_last_updated > st.sc.max_time_delay
         THEN Err("MaxTimeDelayExceeded", st)
    ELSE Ok([st EXCEPT !.sc.last_price = price,
                       !.sc.price_last_updated = current_timestamp]))

\* deviation = last_price * allowed_deviation_bps / BASIS_POINTS_DIVISOR
\* (checked_mul, checked_div: the floor of the quotient).
sanity_check(st, price, current_timestamp) ==
    Then(mul_div(st.sc.last_price, st.sc.allowed_deviation_bps,
                 BASIS_POINTS_DIVISOR, FALSE).val, LAMBDA deviation :
    IF deviation > st.sc.last_price THEN Err("MathOverflow", st)
    ELSE IF price > st.sc.last_price + deviation THEN Err("PriceExceedsMaxDeviation", st)
    ELSE IF price < st.sc.last_price - deviation THEN Err("PriceBelowMinDeviation", st)
    ELSE IF current_timestamp - st.sc.price_last_updated > st.sc.max_time_delay
         THEN Err("MaxTimeDelayExceeded", st)
    ELSE Ok(st))

\* A faulty variant: one capacity is kept for both directions.
check_rate_limit_sharing_capacity(lim, amount, current_timestamp, is_buy) ==
    IF IsSome(lim.rate_limit) /\ IsSome(lim.limit_window)
    THEN Then(IF is_buy THEN lim.mint_capacity_used ELSE lim.redeem_capacity_used,
              LAMBDA used_opt :
         IF IsNone(used_opt) THEN ErrV("DataMismatch")
         ELSE Then(calculate_capacity_used(
                       current_timestamp -
                           (IF is_buy
                            THEN UnwrapOr(lim.mint_last_updated, current_timestamp)
                            ELSE UnwrapOr(lim.redeem_last_updated, current_timestamp)),
                       Unwrap(lim.limit_window), Unwrap(used_opt),
                       Unwrap(lim.rate_limit)), LAMBDA cur :
              IF ~cur.ok THEN cur
              ELSE IF amount > (IF Unwrap(lim.rate_limit) > cur.val
                                THEN Unwrap(lim.rate_limit) - cur.val ELSE 0)
              THEN ErrV("InvalidRateLimit")
              ELSE OkV([lim EXCEPT !.mint_capacity_used = Some(cur.val + amount),
                                   !.mint_last_updated = Some(current_timestamp),
                                   !.redeem_capacity_used = Some(cur.val + amount),
                                   !.redeem_last_updated = Some(current_timestamp)])))
    ELSE ErrV("InvalidRateLimit")

\* A faulty variant: a limiter without a limit pair lets every amount
\* through.
check_rate_limit_unlimited_when_unset(lim, amount, current_timestamp, is_buy) ==
    IF IsSome(lim.rate_limit) /\ IsSome(lim.limit_window)
    THEN Then(IF is_buy THEN lim.mint_capacity_used ELSE lim.redeem_capacity_used,
              LAMBDA used_opt :
         IF IsNone(used_opt) THEN ErrV("DataMismatch")
         ELSE Then(calculate_capacity_used(
                       current_timestamp -
                           (IF is_buy
                            THEN UnwrapOr(lim.mint_last_updated, current_timestamp)
                            ELSE UnwrapOr(lim.redeem_last_updated, current_timestamp)),
                       Unwrap(lim.limit_window), Unwrap(used_opt),
                       Unwrap(lim.rate_limit)), LAMBDA cur :
              IF ~cur.ok THEN cur
              ELSE IF amount > (IF Unwrap(lim.rate_limit) > cur.val
                                THEN Unwrap(lim.rate_limit) - cur.val ELSE 0)
              THEN ErrV("InvalidRateLimit")
              ELSE IF is_buy
              THEN OkV([lim EXCEPT !.mint_capacity_used = Some(cur.val + amount),
                                   !.mint_last_updated = Some(current_timestamp)])
              ELSE OkV([lim EXCEPT !.redeem_capacity_used = Some(cur.val + amount),
                                   !.redeem_last_updated = Some(current_timestamp)])))
    ELSE OkV(lim)

\* A faulty variant: the amount is compared with the rate limit, not with
\* what is left of it.
check_rate_limit_ignoring_usage(lim, amount, current_timestamp, is_buy) ==
    IF IsSome(lim.rate_limit) /\ IsSome(lim.limit_window)
    THEN Then(IF is_buy THEN lim.mint_capacity_used ELSE lim.redeem_capacity_used,
              LAMBDA used_opt :
         IF IsNone(used_opt) THEN ErrV("DataMismatch")
         ELSE Then(calculate_capacity_used(
                       current_timestamp -
                           (IF is_buy
                            THEN UnwrapOr(lim.mint_last_updated, current_timestamp)
                            ELSE UnwrapOr(lim.redeem_last_updated, current_timestamp)),
                       Unwrap(lim.limit_window), Unwrap(used_opt),
                       Unwrap(lim.rate_limit)), LAMBDA cur :
              IF ~cur.ok THEN cur
              ELSE IF amount > Unwrap(lim.rate_limit)
              THEN ErrV("InvalidRateLimit")
              ELSE IF is_buy
              THEN OkV([lim EXCEPT !.mint_capacity_used = Some(cur.val + amount),
                                   !.mint_last_updated = Some(current_timestamp)])
              ELSE OkV([lim EXCEPT !.redeem_capacity_used = Some(cur.val + amount),
                                   !.redeem_last_updated = Some(current_timestamp)])))
    ELSE ErrV("InvalidRateLimit")

\* The body shared by check_token_rate_limit and check_user_rate_limit: lim
\* is the limiter record (TokenLimit or OndoUser); val is the record as
\* updated.
check_rate_limit(lim, amount, current_timestamp, is_buy) ==
    IF IsSome(lim.rate_limit) /\ IsSome(lim.limit_window)
    THEN Then(IF is_buy THEN lim.mint_capacity_used ELSE lim.redeem_capacity_used,
              LAMBDA used_opt :
         IF IsNone(used_opt) THEN ErrV("DataMismatch")
         ELSE Then(calculate_capacity_used(
                       current_timestamp -
                           (IF is_buy
                            THEN UnwrapOr(lim.mint_last_updated, current_timestamp)
                            ELSE UnwrapOr(lim.redeem_last_updated, current_timestamp)),
                       Unwrap(lim.limit_window), Unwrap(used_opt),
                       Unwrap(lim.rate_limit)), LAMBDA cur :
              IF ~cur.ok THEN cur
              ELSE IF amount > (IF Unwrap(lim.rate_limit) > cur.val
                                THEN Unwrap(lim.rate_limit) - cur.val ELSE 0)
              THEN ErrV("InvalidRateLimit")
              ELSE IF is_buy
              THEN OkV([lim EXCEPT !.mint_capacity_used = Some(cur.val + amount),
                                   !.mint_last_updated = Some(current_timestamp)])
              ELSE OkV([lim EXCEPT !.redeem_capacity_used = Some(cur.val + amount),
                                   !.redeem_last_updated = Some(current_timestamp)])))
    ELSE ErrV("InvalidRateLimit")

check_token_rate_limit(st, amount, current_timestamp, is_buy) ==
    Try(check_rate_limit(st.tl, amount, current_timestamp, is_buy), st,
        LAMBDA lim : Ok([st EXCEPT !.tl = lim]))

check_user_rate_limit(st, user, amount, current_timestamp, is_buy) ==
    Try(check_rate_limit(Unwrap(st.ondo_user[user]), amount, current_timestamp, is_buy), st,
        LAMBDA lim : Ok([st EXCEPT !.ondo_user[user] = Some(lim)]))

\* A faulty variant: only the asset-level limiter is consulted.
rate_limit_check_asset_only(st, user, price, token_amount, current_timestamp, is_buy) ==
    Try(mul_div(price, token_amount, PRICE_SCALING_FACTOR, TRUE), st, LAMBDA amount :
    check_token_rate_limit(st, amount, current_timestamp, is_buy))

rate_limit_check(st, user, price, token_amount, current_timestamp, is_buy) ==
    Try(mul_div(price, token_amount, PRICE_SCALING_FACTOR, TRUE), st, LAMBDA amount :
    AndThen(check_token_rate_limit(st, amount, current_timestamp, is_buy), LAMBDA s1 :
    check_user_rate_limit(s1, user, amount, current_timestamp, is_buy)))

\* feed: the price-update account handed to the swap (its key, and what
\* get_price_no_older_than finds in it).
usdc_oracle_sanity_check(st, feed) ==
    IF ~feed.provided THEN Err("USDCOracleNotProvided", st)
    ELSE IF feed.key # USDC_PYTH_ORACLE_ADDRESS THEN Err("USDCOracleNotImplemented", st)
    ELSE IF feed.age > st.usdon_manager.oracle_price_max_age THEN Err("PriceTooOld", st)
    ELSE IF ~(feed.price > 0) THEN Err("InvalidPrice", st)
    ELSE IF ~(feed.exponent < 0) THEN Err("InvalidPriceExponent", st)
    ELSE IF ~(feed.conf * 100 <= feed.price * CONFIDENCE_THRESHOLD)
         THEN Err("ConfidenceThresholdExceeded", st)
    ELSE Try(normalize_decimals(feed.price, -feed.exponent, USDC_PRICE_DECIMALS, FALSE), st,
             LAMBDA usdc_price :
         IF ~(usdc_price >= MIN_PRICE) THEN Err("USDCBelowMinimumPrice", st) ELSE Ok(st))

\* A faulty variant: the feed is consulted whatever the switch says.
swap_oracle_check_always(st, c) == usdc_oracle_sanity_check(st, c.feed)

\* The oracle guard of both swaps.
swap_oracle_check(st, c) ==
    IF st.usdon_manager.oracle_price_enabled
    THEN usdc_oracle_sanity_check(st, c.feed) ELSE Ok(st)

\* The result carries in val the USDon amount to burn.
swap_usdc_to_usdon(st, c, amount_in) ==
    IF ~(amount_in > 0) THEN Err("RequireGtViolated", st)
    ELSE AndThen(swap_oracle_check(st, c), LAMBDA s1 :
         AndThen(transfer_checked(s1, "usdc", c.user, Vault, amount_in), LAMBDA s2 :
         [ok |-> TRUE, err |-> "Ok", st |-> s2,
          val |-> normalize_decimals(amount_in, USDC_DECIMALS, USDON_DECIMALS, FALSE).val]))

swap_usdon_to_usdc(st, c, amount_in) ==
    IF ~(amount_in > 0) THEN Err("RequireGtViolated", st)
    ELSE AndThen(swap_oracle_check(st, c), LAMBDA s1 :
         Try(normalize_decimals(amount_in, USDON_DECIMALS, USDC_DECIMALS, FALSE), s1,
             LAMBDA normalized_amount_out :
         IF ~(normalized_amount_out > 0) THEN Err("InvalidAmount", s1)
         ELSE AndThen(transfer_checked(s1, "usdon", c.user, Vault,
                          normalize_decimals(normalized_amount_out, USDC_DECIMALS,
                                             USDON_DECIMALS, FALSE).val), LAMBDA s2 :
              transfer_checked(s2, "usdc", Vault, c.user, normalized_amount_out))))

\* A faulty variant: the marker record is not consulted.
verify_whitelist_ignoring_marker(st, user) == Ok(st)

verify_whitelist(st, user) ==
    IF user \notin st.whitelist THEN Err("UserNotWhitelisted", st) ELSE Ok(st)

\* A faulty variant: the record is filled in on every trade.
initialize_ondo_user_on_every_trade(st, user) ==
    Ok([st EXCEPT !.ondo_user[user] =
          Some([rate_limit |-> st.tl.default_user_rate_limit,
                limit_window |-> st.tl.default_user_limit_window,
                mint_capacity_used |-> Some(0),
                mint_last_updated |-> None,
                redeem_capacity_used |-> Some(0),
                redeem_last_updated |-> None])])

\* The user record of an account the init_if_needed constraint has just
\* created is zeroed: its owner differs from the user and it is filled in.
initialize_ondo_user(st, user) ==
    IF IsNone(st.ondo_user[user])
    THEN Ok([st EXCEPT !.ondo_user[user] =
               Some([rate_limit |-> st.tl.default_user_rate_limit,
                     limit_window |-> st.tl.default_user_limit_window,
                     mint_capacity_used |-> Some(0),
                     mint_last_updated |-> None,
                     redeem_capacity_used |-> Some(0),
                     redeem_last_updated |-> None])])
    ELSE Ok(st)

\* A faulty variant: a lifetime of exactly MAX_ATTESTATION_EXPIRATION is
\* rejected.
trade_preconditions_strict_lifetime(st, c) ==
    AndThen(verify_whitelist(st, c.user), LAMBDA s0 :
    IF ~(c.amount > 0) THEN Err("RequireGtViolated", s0)
    ELSE IF ~(c.price > 0) THEN Err("RequireGtViolated", s0)
    ELSE AndThen(check_is_valid_hours(s0, s0.now), LAMBDA s1 :
    IF ~(s1.now < c.expiration) THEN Err("AttestationExpired", s1)
    ELSE IF ~(c.expiration - s1.now < MAX_ATTESTATION_EXPIRATION)
         THEN Err("AttestationExpirationTooLarge", s1)
    ELSE Ok(s1)))

\* A faulty variant: the trading hours are checked before the whitelist.
trade_preconditions_hours_first(st, c) ==
    AndThen(check_is_valid_hours(st, st.now), LAMBDA s0 :
    AndThen(verify_whitelist(s0, c.user), LAMBDA s1 :
    IF ~(c.amount > 0) THEN Err("RequireGtViolated", s1)
    ELSE IF ~(c.price > 0) THEN Err("RequireGtViolated", s1)
    ELSE IF ~(s1.now < c.expiration) THEN Err("AttestationExpired", s1)
    ELSE IF ~(c.expiration - s1.now <= MAX_ATTESTATION_EXPIRATION)
         THEN Err("AttestationExpirationTooLarge", s1)
    ELSE Ok(s1)))

\* The checks of mint_with_attestation and redeem_with_attestation that
\* follow the pause gates and precede the first write.
trade_preconditions(st, c) ==
    AndThen(verify_whitelist(st, c.user), LAMBDA s0 :
    IF ~(c.amount > 0) THEN Err("RequireGtViolated", s0)
    ELSE IF ~(c.price > 0) THEN Err("RequireGtViolated", s0)
    ELSE AndThen(check_is_valid_hours(s0, s0.now), LAMBDA s1 :
    IF ~(s1.now < c.expiration) THEN Err("AttestationExpired", s1)
    ELSE IF ~(c.expiration - s1.now <= MAX_ATTESTATION_EXPIRATION)
         THEN Err("AttestationExpirationTooLarge", s1)
    ELSE Ok(s1)))

\* A faulty variant: the attestation is verified before the replay guard
\* is consulted.
trade_checks_verifying_first(st, c, side) ==
    AndThen(initialize_ondo_user(st, c.user), LAMBDA s1 :
    AndThen(verify_attestation(s1, c, CHAIN_ID, side), LAMBDA s2 :
    AndThen(initialize_attestation_account(s2, c.user, c.attestation_id, s2.now), LAMBDA s3 :
    AndThen(sanity_check(s3, c.price, s3.now), LAMBDA s4 :
    rate_limit_check(s4, c.user, c.price, c.amount, s4.now, side = BUY)))))

\* initialize_ondo_user, initialize_attestation_account, verify_attestation,
\* sanity_check and rate_limit_check, in the order of both handlers.
trade_checks(st, c, side) ==
    AndThen(initialize_ondo_user(st, c.user), LAMBDA s1 :
    AndThen(initialize_attestation_account(s1, c.user, c.attestation_id, s1.now), LAMBDA s2 :
    AndThen(verify_attestation(s2, c, CHAIN_ID, side), LAMBDA s3 :
    AndThen(sanity_check(s3, c.price, s3.now), LAMBDA s4 :
    rate_limit_check(s4, c.user, c.price, c.amount, s4.now, side = BUY)))))

\* A faulty variant: the asset's own minting_paused flag is not consulted.
mint_with_attestation_ignoring_asset_pause(st, c, is_usdon) ==
    IF st.gm.minting_paused THEN Err("GMTokenMintingPaused", st)
    ELSE
    AndThen(trade_preconditions(st, c), LAMBDA s1 :
    AndThen(trade_checks(s1, c, BUY), LAMBDA s5 :
    Try(mul_div(c.price, c.amount, PRICE_SCALING_FACTOR, TRUE), s5, LAMBDA amount_sent :
    AndThen(IF is_usdon
            THEN IF ~(amount_sent > 0) THEN Err("InvalidAmount", s5)
                 ELSE transfer_checked(s5, "usdon", c.user, Vault, amount_sent)
            ELSE Then(swap_usdc_to_usdon(s5, c,
                          normalize_decimals(amount_sent, GM_TOKEN_DECIMALS,
                                             USDC_DECIMALS, TRUE).val), LAMBDA sw :
                 IF ~sw.ok THEN Err(sw.err, sw.st)
                 ELSE burn_checked(sw.st, "usdon", Vault, sw.val)), LAMBDA s6 :
    mint_to(s6, "gm", c.user, c.amount)))))

\* c: the instruction's arguments and what its accounts hold that the
\* program does not own: the instructions sysvar (tx) and the price feed.
mint_with_attestation(st, c, is_usdon) ==
    IF st.gm.minting_paused THEN Err("GMTokenMintingPaused", st)
    ELSE IF st.tl.minting_paused THEN Err("GMTokenMintingPaused", st)
    ELSE
    AndThen(trade_preconditions(st, c), LAMBDA s1 :
    AndThen(trade_checks(s1, c, BUY), LAMBDA s5 :
    Try(mul_div(c.price, c.amount, PRICE_SCALING_FACTOR, TRUE), s5, LAMBDA amount_sent :
    AndThen(IF is_usdon
            THEN IF ~(amount_sent > 0) THEN Err("InvalidAmount", s5)
                 ELSE transfer_checked(s5, "usdon", c.user, Vault, amount_sent)
            ELSE Then(swap_usdc_to_usdon(s5, c,
                          normalize_decimals(amount_sent, GM_TOKEN_DECIMALS,
                                             USDC_DECIMALS, TRUE).val), LAMBDA sw :
                 IF ~sw.ok THEN Err(sw.err, sw.st)
                 ELSE burn_checked(sw.st, "usdon", Vault, sw.val)), LAMBDA s6 :
    mint_to(s6, "gm", c.user, c.amount)))))

\* A faulty variant: a payout of 0 is let through.
redeem_with_attestation_paying_nothing(st, c, is_usdon) ==
    IF st.gm.redemption_paused THEN Err("GMTokenRedemptionPaused", st)
    ELSE IF st.tl.redemption_paused THEN Err("GMTokenRedemptionPaused", st)
    ELSE
    AndThen(trade_preconditions(st, c), LAMBDA s1 :
    AndThen(trade_checks(s1, c, SELL), LAMBDA s5 :
    Try(mul_div(c.price, c.amount, PRICE_SCALING_FACTOR, FALSE), s5, LAMBDA mint_amount :
    AndThen(mint_to(s5, "usdon", c.user, mint_amount), LAMBDA s6 :
    AndThen(IF is_usdon THEN Ok(s6) ELSE swap_usdon_to_usdc(s6, c, mint_amount), LAMBDA s7 :
    burn_checked(s7, "gm", c.user, c.amount))))))

redeem_with_attestation(st, c, is_usdon) ==
    IF st.gm.redemption_paused THEN Err("GMTokenRedemptionPaused", st)
    ELSE IF st.tl.redemption_paused THEN Err("GMTokenRedemptionPaused", st)
    ELSE
    AndThen(trade_preconditions(st, c), LAMBDA s1 :
    AndThen(trade_checks(s1, c, SELL), LAMBDA s5 :
    Try(mul_div(c.price, c.amount, PRICE_SCALING_FACTOR, FALSE), s5, LAMBDA mint_amount :
    IF ~(mint_amount > 0) THEN Err("InvalidAmount", s5)
    ELSE
    AndThen(mint_to(s5, "usdon", c.user, mint_amount), LAMBDA s6 :
    AndThen(IF is_usdon THEN Ok(s6) ELSE swap_usdon_to_usdc(s6, c, mint_amount), LAMBDA s7 :
    burn_checked(s7, "gm", c.user, c.amount))))))

(***************************************************************************)
(* Instruction entry points (lib.rs).  The handler's error is returned     *)
(* from the instruction; on success the execution id is advanced and       *)
(* emitted (emitted is 0 when nothing was emitted).                        *)
(***************************************************************************)
TradeExecuted(r) ==
    IF ~r.ok THEN [ok |-> FALSE, err |-> r.err, st |-> r.st, emitted |-> 0]
    ELSE Then(next_execution_id(r.st), LAMBDA n :
         [ok |-> TRUE, err |-> "Ok", st |-> n.st, emitted |-> n.val])

mint_with_usdon(st, c) == TradeExecuted(mint_with_attestation(st, c, TRUE))
mint_with_usdc(st, c) == TradeExecuted(mint_with_attestation(st, c, FALSE))
redeem_for_usdon(st, c) == TradeExecuted(redeem_with_attestation(st, c, TRUE))
redeem_for_usdc(st, c) == TradeExecuted(redeem_with_attestation(st, c, FALSE))

\* A failed instruction aborts its transaction: the accounts keep the
\* values they had before it; a successful one stores the working copy.
\* A faulty variant: the working copy is stored whatever was returned.
Commit_without_rollback(pre, r) == r.st

Commit(pre, r) == IF r.ok THEN r.st ELSE pre

(***************************************************************************)
(* Administrative handlers                                                 *)
(***************************************************************************)
\* instructions/usdon_manager_admin_operations.rs
enable_oracle_price(st, is_enabled) ==
    Ok([st EXCEPT !.usdon_manager.oracle_price_enabled = is_enabled])

\* A faulty variant: the price is stored without its time.
set_last_price_keeping_time(st, last_price) ==
    IF ~(last_price > 0) THEN Err("InvalidPrice", st)
    ELSE Ok([st EXCEPT !.sc.last_price = last_price])

\* instructions/sanity_checker_admin_operations.rs
set_last_price(st, last_price) ==
    IF ~(last_price > 0) THEN Err("InvalidPrice", st)
    ELSE Ok([st EXCEPT !.sc.last_price = last_price,
                       !.sc.price_last_updated = st.now])

\* val is the OracleSanityCheck record written at the time now.
initialize_sanity_check(last_price, allowed_deviation_bps, max_time_delay, now) ==
    IF ~(allowed_deviation_bps <= BASIS_POINTS_DIVISOR) THEN ErrV("InvalidPercentage")
    ELSE IF ~(max_time_delay <= MAX_SECONDS_EXPIRATION) THEN ErrV("InvalidMaxTimeDelay")
    ELSE IF ~(last_price > 0) THEN ErrV("InvalidPrice")
    ELSE OkV([last_price |-> last_price, allowed_deviation_bps |-> allowed_deviation_bps,
              max_time_delay |-> max_time_delay, price_last_updated |-> now])

set_allowed_deviation_bps(st, allowed_deviation_bps) ==
    IF ~(allowed_deviation_bps <= BASIS_POINTS_DIVISOR) THEN Err("InvalidPercentage", st)
    ELSE Ok([st EXCEPT !.sc.allowed_deviation_bps = allowed_deviation_bps])

\* A faulty variant: any delay is stored.
set_max_time_delay_unchecked(st, max_time_delay) ==
    Ok([st EXCEPT !.sc.max_time_delay = max_time_delay])

set_max_time_delay(st, max_time_delay) ==
    IF ~(max_time_delay <= MAX_SECONDS_EXPIRATION) THEN Err("InvalidMaxTimeDelay", st)
    ELSE Ok([st EXCEPT !.sc.max_time_delay = max_time_delay])

\* A faulty variant: a record is closed whatever its age.
close_attestation_account_at_any_age(st, attestation_id, recipient) ==
    IF IsNone(st.attestation[attestation_id]) THEN Err("AccountNotInitialized", st)
    ELSE Then(Unwrap(st.attestation[attestation_id]), LAMBDA a :
         IF recipient # a.creator THEN Err("ConstraintAddress", st)
         ELSE Ok([st EXCEPT !.bal["lamports"][recipient] = @ + a.lamports,
                            !.attestation[attestation_id] = None]))

\* A faulty variant: a record of exactly the minimum age is closed.
close_attestation_account_at_minimum_age(st, attestation_id, recipient) ==
    IF IsNone(st.attestation[attestation_id]) THEN Err("AccountNotInitialized", st)
    ELSE Then(Unwrap(st.attestation[attestation_id]), LAMBDA a :
         IF recipient # a.creator THEN Err("ConstraintAddress", st)
         ELSE IF ~(st.now >= a.created_at + MAX_ATTESTATION_EXPIRATION)
              THEN Err("AttestationTooNew", st)
         ELSE Ok([st EXCEPT !.bal["lamports"][recipient] = @ + a.lamports,
                            !.attestation[attestation_id] = None]))

\* instructions/close_attestation_account.rs.  The account constraints
\* require the record to exist and the recipient to be its creator; the
\* close constraint hands the account's lamports to the recipient.
close_attestation_account(st, attestation_id, recipient) ==
    IF IsNone(st.attestation[attestation_id]) THEN Err("AccountNotInitialized", st)
    ELSE Then(Unwrap(st.attestation[attestation_id]), LAMBDA a :
         IF recipient # a.creator THEN Err("ConstraintAddress", st)
         ELSE IF ~(st.now > a.created_at + MAX_ATTESTATION_EXPIRATION)
              THEN Err("AttestationTooNew", st)
         ELSE Ok([st EXCEPT !.bal["lamports"][recipient] = @ + a.lamports,
                            !.attestation[attestation_id] = None]))

\* A faulty variant: an entry that cannot be closed is passed over and the
\* others are closed.
RECURSIVE batch_close_attestation_accounts_skipping(_, _, _)
batch_close_attestation_accounts_skipping(st, remaining_accounts, recipient) ==
    IF remaining_accounts = <<>> THEN Ok(st)
    ELSE IF \/ IsNone(st.attestation[Head(remaining_accounts)])
            \/ Unwrap(st.attestation[Head(remaining_accounts)]).creator # recipient
            \/ ~(st.now > Unwrap(st.attestation[Head(remaining_accounts)]).created_at
                              + MAX_ATTESTATION_EXPIRATION)
    THEN batch_close_attestation_accounts_skipping(st, Tail(remaining_accounts), recipient)
    ELSE batch_close_attestation_accounts_skipping(
             [st EXCEPT !.bal["lamports"][recipient] =
                            @ + Unwrap(st.attestation[Head(remaining_accounts)]).lamports,
                        !.attestation[Head(remaining_accounts)] = None],
             Tail(remaining_accounts), recipient)

\* remaining_accounts: the sequence of the ids whose accounts are passed.
\* An account that holds no record (never created, or closed earlier in
\* the same loop) is not owned by the program.
RECURSIVE batch_close_attestation_accounts(_, _, _)
batch_close_attestation_accounts(st, remaining_accounts, recipient) ==
    IF remaining_accounts = <<>> THEN Ok(st)
    ELSE IF IsNone(st.attestation[Head(remaining_accounts)]) THEN Err("ProgramMismatch", st)
    ELSE IF Unwrap(st.attestation[Head(remaining_accounts)]).creator # recipient
         THEN Err("InvalidUser", st)
    ELSE IF ~(st.now > Unwrap(st.attestation[Head(remaining_accounts)]).created_at
                         + MAX_ATTESTATION_EXPIRATION)
         THEN Err("AttestationTooNew", st)
    ELSE batch_close_attestation_accounts(
             [st EXCEPT !.bal["lamports"][recipient] =
                            @ + Unwrap(st.attestation[Head(remaining_accounts)]).lamports,
                        !.attestation[Head(remaining_accounts)] = None],
             Tail(remaining_accounts), recipient)

\* instructions/gm_token_manager_admin_operations.rs
pause_global_minting(st) == Ok([st EXCEPT !.gm.minting_paused = TRUE])
resume_global_minting(st) == Ok([st EXCEPT !.gm.minting_paused = FALSE])
pause_global_redemption(st) == Ok([st EXCEPT !.gm.redemption_paused = TRUE])
resume_global_redemption(st) == Ok([st EXCEPT !.gm.redemption_paused = FALSE])
pause_gmtoken_minting(st) == Ok([st EXCEPT !.tl.minting_paused = TRUE])
resume_gmtoken_minting(st) == Ok([st EXCEPT !.tl.minting_paused = FALSE])
pause_gmtoken_redemption(st) == Ok([st EXCEPT !.tl.redemption_paused = TRUE])
resume_gmtoken_redemption(st) == Ok([st EXCEPT !.tl.redemption_paused = FALSE])

\* The manager record initialize_gmtoken_manager writes (val), or its error.
initialize_gmtoken_manager(redemption_paused, minting_paused, attestation_signer_secp, trading_hours_offset) ==
    IF ~validate_trading_hours_offset(trading_hours_offset).ok
    THEN ErrV(validate_trading_hours_offset(trading_hours_offset).err)
    ELSE OkV([execution_id |-> None, minting_paused |-> minting_paused,
              redemption_paused |-> redemption_paused,
              attestation_signer_secp |-> attestation_signer_secp,
              trading_hours_offset |-> trading_hours_offset])

set_attestation_signer_secp(st, attestation_signer_secp) ==
    Ok([st EXCEPT !.gm.attestation_signer_secp = attestation_signer_secp])

\* A faulty variant: the new offset is stored without validation.
set_trading_hours_offset_unchecked(st, new_trading_hours_offset) ==
    Ok([st EXCEPT !.gm.trading_hours_offset = new_trading_hours_offset])

set_trading_hours_offset(st, new_trading_hours_offset) ==
    IF ~validate_trading_hours_offset(new_trading_hours_offset).ok
    THEN Err(validate_trading_hours_offset(new_trading_hours_offset).err, st)
    ELSE Ok([st EXCEPT !.gm.trading_hours_offset = new_trading_hours_offset])

\* instructions/whitelist_operations.rs.  The marker account is created by
\* the init constraint, which fails if the account exists, and closed by
\* the close constraint, which needs the account to exist.
add_to_whitelist(st, address_to_whitelist) ==
    IF address_to_whitelist \in st.whitelist THEN Err("AccountAlreadyInUse", st)
    ELSE Ok([st EXCEPT !.whitelist = @ \cup {address_to_whitelist}])

remove_from_whitelist(st, address_to_remove) ==
    IF address_to_remove \notin st.whitelist THEN Err("AccountNotInitialized", st)
    ELSE Ok([st EXCEPT !.whitelist = @ \ {address_to_remove}])

\* instructions/token_limit_admin_operations.rs.  The optional arguments
\* are None or Some(v); val is the TokenLimit record written.
initialize_token_limit(rate_limit, limit_window, default_user_rate_limit, default_user_limit_window) ==
    IF IsSome(limit_window) /\ ~(Unwrap(limit_window) > 0) THEN ErrV("InvalidRateLimit")
    ELSE IF IsSome(default_user_limit_window) /\ ~(Unwrap(default_user_limit_window) > 0)
         THEN ErrV("InvalidRateLimit")
    ELSE OkV([rate_limit |-> rate_limit, limit_window |-> limit_window,
              mint_capacity_used |->
                  IF IsSome(rate_limit) /\ IsSome(limit_window) THEN Some(0) ELSE None,
              mint_last_updated |-> None,
              redeem_capacity_used |->
                  IF IsSome(rate_limit) /\ IsSome(limit_window) THEN Some(0) ELSE None,
              redeem_last_updated |-> None,
              minting_paused |-> FALSE, redemption_paused |-> FALSE,
              default_user_rate_limit |-> default_user_rate_limit,
              default_user_limit_window |-> default_user_limit_window])

\* Variant: an absent argument clears the field.
Updated_clearing(old, new) == new

\* new if it is given, old otherwise.
Updated(old, new) == IF IsSome(new) THEN new ELSE old

\* Variant: the used capacities are left as they are when the pair becomes
\* complete.
set_token_limit_leaving_capacity(st, rate_limit, limit_window, default_user_rate_limit, default_user_limit_window) ==
    IF IsSome(limit_window) /\ ~(Unwrap(limit_window) > 0) THEN Err("InvalidRateLimit", st)
    ELSE IF IsSome(default_user_limit_window) /\ ~(Unwrap(default_user_limit_window) > 0)
         THEN Err("InvalidRateLimit", st)
    ELSE Ok([st EXCEPT !.tl = [@ EXCEPT
                 !.rate_limit = Updated(@, rate_limit),
                 !.limit_window = Updated(@, limit_window),
                 !.default_user_rate_limit = Updated(@, default_user_rate_limit),
                 !.default_user_limit_window = Updated(@, default_user_limit_window)]])

set_token_limit(st, rate_limit, limit_window, default_user_rate_limit, default_user_limit_window) ==
    IF IsSome(limit_window) /\ ~(Unwrap(limit_window) > 0) THEN Err("InvalidRateLimit", st)
    ELSE IF IsSome(default_user_limit_window) /\ ~(Unwrap(default_user_limit_window) > 0)
         THEN Err("InvalidRateLimit", st)
    ELSE Then([st.tl EXCEPT
                 !.rate_limit = Updated(@, rate_limit),
                 !.limit_window = Updated(@, limit_window),
                 !.default_user_rate_limit = Updated(@, default_user_rate_limit),
                 !.default_user_limit_window = Updated(@, default_user_limit_window)],
         LAMBDA tl :
         IF IsSome(tl.rate_limit) /\ IsSome(tl.limit_window)
         THEN Ok([st EXCEPT !.tl = [tl EXCEPT
                     !.mint_capacity_used = IF IsNone(@) THEN Some(0) ELSE @,
                     !.redeem_capacity_used = IF IsNone(@) THEN Some(0) ELSE @]])
         ELSE Ok([st EXCEPT !.tl = tl]))

\* instructions/initialize_user.rs.  The user record is created by the init
\* constraint, which fails if the account exists.
initialize_user(st, user, rate_limit, limit_window) ==
    IF IsSome(st.ondo_user[user]) THEN Err("AccountAlreadyInUse", st)
    ELSE IF IsSome(rate_limit) /\ IsSome(limit_window)
    THEN Ok([st EXCEPT !.ondo_user[user] =
               Some([rate_limit |-> rate_limit, limit_window |-> limit_window,
                     mint_capacity_used |-> Some(0), mint_last_updated |-> None,
                     redeem_capacity_used |-> Some(0), redeem_last_updated |-> None])])
    ELSE Ok([st EXCEPT !.ondo_user[user] =
               Some([rate_limit |-> None, limit_window |-> None,
                     mint_capacity_used |-> None, mint_last_updated |-> None,
                     redeem_capacity_used |-> None, redeem_last_updated |-> None])])

\* The record of the user must exist (Account<OndoUser>).
set_ondo_user_limits(st, user, rate_limit, limit_window) ==
    IF IsNone(st.ondo_user[user]) THEN Err("AccountNotInitialized", st)
    ELSE Ok([st EXCEPT !.ondo_user[user] =
               Some([Unwrap(@) EXCEPT
                  !.rate_limit = Some(rate_limit),
                  !.limit_window =
                      IF limit_window # 0 THEN Some(limit_window)
                      ELSE IF IsNone(st.tl.default_user_limit_window)
                           THEN Some(DEFAULT_LIMIT_WINDOW)
                           ELSE st.tl.default_user_limit_window,
                  !.mint_capacity_used = IF IsNone(@) THEN Some(0) ELSE @,
                  !.redeem_capacity_used = IF IsNone(@) THEN Some(0) ELSE @])])

(***************************************************************************)
(* Bounds of the model and the inputs explored                             *)
(***************************************************************************)
Users == {"u1", "u2"}
AttestationIds == {"a1", "a2"}
GM == "GM"
TrustedSigner == "0xSigner"
OtherSigner == "0xOther"

\* The clock starts LeadTime seconds before Saturday 00:00 UTC (day 2 of
\* the epoch) and runs for Horizon seconds; a trade instruction is
\* submitted while fewer than MaxTrades trades have executed.
LeadTime == 60
Horizon == 31
MaxTrades == 2
StartTime == 2 * SECONDS_PER_DAY - LeadTime
MaxTime == StartTime + Horizon
TickDeltas == {MAX_ATTESTATION_EXPIRATION, MAX_ATTESTATION_EXPIRATION + 1}

InitRateLimit == 150
InitUserRateLimit == 100
InitLimitWindow == 60
InitLastPrice == PRICE_SCALING_FACTOR
InitDeviationBps == 500
InitMaxTimeDelay == 30
InitUsdon == 200
InitGm == 100
InitUsdc == 2
InitVaultUsdon == 2000
InitVaultUsdc == 2
InitLamports == 5

\* What the trusted signer (or somebody else) signs: the fields of a
\* quote, in the order calculate_quote_hash takes them.
Fields(u, id, side, p, a, e) == <<CHAIN_ID, id, side, u, GM, p, a, e>>

HashOf(q) == calculate_quote_hash(q[1], q[2], q[3], q[4], q[5], q[6], q[7], q[8])

\* The instructions sysvar of a transaction whose instruction 0 is a
\* secp256k1 verification of the digest of the fields q, signed by the key
\* of address addr (one signature, offsets header of 12 bytes, address at
\* 12, message at 97), and whose instruction 1 is the trade.  attested
\* records the fields that were signed; the program never reads it.
GoodTx(q, addr) ==
    [current_ix_idx |-> 1,
     prev |-> [program_id |-> SECP256K1_PROGRAM, data_len |-> 129, num_sigs |-> 1,
               sig_ix |-> 0, eth_ix |-> 0, msg_ix |-> 0,
               eth_off |-> 12, msg_off |-> 97, msg_len |-> 32,
               msg |-> HashOf(q), eth_addr |-> addr, attested |-> q]]

\* The fields q with field i replaced by another value of its type.
Tampered(q, i) ==
    [q EXCEPT ![i] = CASE i = 1 -> "other-chain"
                       [] i = 2 -> IF q[i] = "a1" THEN "a2" ELSE "a1"
                       [] i = 3 -> IF q[i] = BUY THEN SELL ELSE BUY
                       [] i = 4 -> IF q[i] = "u1" THEN "u2" ELSE "u1"
                       [] i = 5 -> "GM2"
                       [] OTHER -> q[i] + 1]

\* The transactions explored for a trade with the fields q.  Variant 0
\* carries the trusted signer's signature of q in the place and shape the
\* program requires; the others do not: variants 1 to 12 break the place,
\* the shape or the signer, variant 12 + i is a signature of q with field
\* i changed.
TxVariants == 0..20
BadTxVariants == 1..20

\* One more: the signature record reports the all-zero address as signer.
ZeroSigned == 21

TxVariant(q, v) ==
    CASE v = 0 -> GoodTx(q, TrustedSigner)
      [] v = 1 -> [GoodTx(q, TrustedSigner) EXCEPT !.current_ix_idx = 0]
      [] v = 2 -> [GoodTx(q, TrustedSigner) EXCEPT
                      !.prev.program_id = "11111111111111111111111111111111"]
      [] v = 3 -> [GoodTx(q, TrustedSigner) EXCEPT !.prev.data_len = 0]
      [] v = 4 -> [GoodTx(q, TrustedSigner) EXCEPT !.prev.num_sigs = 2]
      [] v = 5 -> [GoodTx(q, TrustedSigner) EXCEPT !.prev.data_len = 11]
      [] v = 6 -> [GoodTx(q, TrustedSigner) EXCEPT !.prev.msg_len = 31]
      [] v = 7 -> [GoodTx(q, TrustedSigner) EXCEPT !.prev.msg_off = 98]
      [] v = 8 -> [GoodTx(q, TrustedSigner) EXCEPT !.prev.eth_off = 110]
      [] v = 9 -> [GoodTx(q, TrustedSigner) EXCEPT !.prev.sig_ix = 1]
      [] v = 10 -> [GoodTx(q, TrustedSigner) EXCEPT !.prev.eth_ix = 1]
      [] v = 11 -> [GoodTx(q, TrustedSigner) EXCEPT !.prev.msg_ix = 1]
      [] v = 12 -> GoodTx(q, OtherSigner)
      [] v = ZeroSigned -> GoodTx(q, ZERO_ADDRESS)
      [] OTHER -> GoodTx(Tampered(q, v - 12), TrustedSigner)

GoodFeed ==
    [provided |-> TRUE, key |-> USDC_PYTH_ORACLE_ADDRESS, age |-> 0,
     price |-> 100000000, conf |-> 0, exponent |-> -8]

\* The price feeds explored: variant 0 passes the oracle guard, the others
\* each fail one of its checks.
FeedVariants == 0..7
BadFeedVariants == 1..7

FeedVariant(v) ==
    CASE v = 0 -> GoodFeed
      [] v = 1 -> [GoodFeed EXCEPT !.provided = FALSE]
      [] v = 2 -> [GoodFeed EXCEPT !.key = "other-feed"]
      [] v = 3 -> [GoodFeed EXCEPT !.age = 61]
      [] v = 4 -> [GoodFeed EXCEPT !.price = 0]
      [] v = 5 -> [GoodFeed EXCEPT !.exponent = 0]
      [] v = 6 -> [GoodFeed EXCEPT !.conf = 1000001]
      [] v = 8 -> [GoodFeed EXCEPT !.price = 980000, !.exponent = -6]
      [] v = 9 -> [GoodFeed EXCEPT !.price = 979999999, !.exponent = -9]
      [] v = 10 -> [GoodFeed EXCEPT !.age = 60, !.conf = 1000000]
      [] OTHER -> [GoodFeed EXCEPT !.price = 97999999]

\* The call described by k = <<user, attestation id, price, amount,
\* expiration - now, transaction variant, feed variant>>, submitted at time
\* now to an entry point of the given side.
MkCall(now, side, k) ==
    [user |-> k[1], mint |-> GM, attestation_id |-> k[2], price |-> k[3], amount |-> k[4],
     expiration |-> now + k[5],
     tx |-> TxVariant(Fields(k[1], k[2], side, k[3], k[4], now + k[5]), k[6]),
     feed |-> FeedVariant(k[7])]

GoodPrices == {950000000, 1000000000, 1050000000}
BadPrices == {0, 949999999, 1050000001}
GoodAmounts == {50, 60, 100}
BadAmounts == {0, 1}
BaseAmount == 50
Lifetimes == {-1, 0, 1, MAX_ATTESTATION_EXPIRATION, MAX_ATTESTATION_EXPIRATION + 1}

\* The calls the properties range over: the attested calls over the good
\* prices and amounts, and the variants of a base call with the price, the
\* amount, the expiration, the transaction or the feed changed.
CallParams ==
    {<<u, id, p, a, MAX_ATTESTATION_EXPIRATION, 0, 0>> :
        u \in Users, id \in AttestationIds, p \in GoodPrices, a \in GoodAmounts}
    \cup {<<u, id, p, BaseAmount, MAX_ATTESTATION_EXPIRATION, 0, 0>> :
        u \in Users, id \in AttestationIds, p \in BadPrices}
    \cup {<<u, id, InitLastPrice, a, MAX_ATTESTATION_EXPIRATION, 0, 0>> :
        u \in Users, id \in AttestationIds, a \in BadAmounts}
    \cup {<<u, id, InitLastPrice, BaseAmount, d, 0, 0>> :
        u \in Users, id \in AttestationIds, d \in Lifetimes}
    \cup {<<u, id, InitLastPrice, BaseAmount, MAX_ATTESTATION_EXPIRATION, v, 0>> :
        u \in Users, id \in AttestationIds, v \in BadTxVariants}
    \cup {<<u, id, InitLastPrice, BaseAmount, MAX_ATTESTATION_EXPIRATION, 0, v>> :
        u \in Users, id \in AttestationIds, v \in BadFeedVariants}

\* The calls the trade actions submit: the attested calls at the recorded
\* price, and calls of one user failing at the stages of the handler.
TradeAmounts == {50, 100}

TradeParams ==
    {<<u, id, InitLastPrice, a, MAX_ATTESTATION_EXPIRATION, 0, 0>> :
        u \in Users, id \in AttestationIds, a \in TradeAmounts}
    \cup {k \in CallParams :
            /\ k[1] = "u1" /\ k[2] = "a1"
            /\ \/ k[3] = 1050000001
               \/ k[3] = 950000000 /\ k[4] = BaseAmount
               \/ k[4] = 0
               \/ k[5] \in {0, MAX_ATTESTATION_EXPIRATION + 1}
               \/ k[6] \in {12, 18}
               \/ k[7] = 4}

\* The USDC entry points are driven with the base amount only.
UsdcTradeParams == {k \in TradeParams : k[4] \in {0, BaseAmount}}

\* The calls of the specifications that explore the price record and the
\* pause flags: one user's attested calls of the base amount.
PriceLevels == {950000000, 1000000000, 1050000000, 1050000001}

PriceParams ==
    {<<"u1", id, p, BaseAmount, MAX_ATTESTATION_EXPIRATION, 0, 0>> :
        id \in AttestationIds, p \in PriceLevels}

PauseParams ==
    {<<"u1", id, InitLastPrice, BaseAmount, MAX_ATTESTATION_EXPIRATION, 0, 0>> :
        id \in AttestationIds}

(***************************************************************************)
(* The state machine                                                       *)
(***************************************************************************)
VARIABLES
    gmtoken_manager_state,  \* GMTokenManagerState
    token_limit_account,    \* TokenLimit of the GM mint
    sanity_check_account,   \* OracleSanityCheck of the GM mint
    ondo_user,              \* OndoUser records, by user
    attestation,            \* Attestation records, by attestation id
    whitelist,              \* users that have a Whitelist record
    usdon_manager_state,    \* USDonManagerState
    bal,                    \* token balances (and lamports), by asset and holder
    clock,                  \* Clock::get()?.unix_timestamp
    last,                   \* the last instruction and what it returned
    host,                   \* the transactions the host has in flight
    util                    \* the last call of a utility function: arguments and result

vars == <<gmtoken_manager_state, token_limit_account, sanity_check_account, ondo_user,
          attestation, whitelist, usdon_manager_state, bal, clock, last, host, util>>

\* The accounts an instruction works on.
Accounts ==
    [gm |-> gmtoken_manager_state, tl |-> token_limit_account,
     sc |-> sanity_check_account, ondo_user |-> ondo_user, attestation |-> attestation,
     whitelist |-> whitelist, usdon_manager |-> usdon_manager_state, bal |-> bal,
     now |-> clock]

Install(st) ==
    /\ gmtoken_manager_state' = st.gm
    /\ token_limit_account' = st.tl
    /\ sanity_check_account' = st.sc
    /\ ondo_user' = st.ondo_user
    /\ attestation' = st.attestation
    /\ whitelist' = st.whitelist
    /\ usdon_manager_state' = st.usdon_manager
    /\ bal' = st.bal
    /\ clock' = st.now

\* One instruction: its result r decides what is stored.
Invoke(op, r) ==
    /\ Install(Commit(Accounts, r))
    /\ last' = [op |-> op, err |-> r.err]
    /\ host' = host
    /\ util' = util

\* No transaction is in flight.
Slots == {1, 2}
NoTransaction == [stage |-> "none", op |-> "", k |-> <<>>, copy |-> None, err |-> ""]
NoHost == [base |-> None, tx |-> [t \in Slots |-> NoTransaction]]

\* No utility function has been called.
NoCall == [fn |-> "none", args |-> <<>>, res |-> OkV(0), of |-> <<>>]

\* The state after initialize_gmtoken_manager, initialize_token_limit,
\* initialize_sanity_check, set_attestation_signer_secp, the whitelisting
\* of the users and the funding of the token accounts.
Init ==
    /\ gmtoken_manager_state =
          [execution_id |-> None, minting_paused |-> FALSE, redemption_paused |-> FALSE,
           attestation_signer_secp |-> TrustedSigner, trading_hours_offset |-> 0]
    /\ token_limit_account =
          [rate_limit |-> Some(InitRateLimit), limit_window |-> Some(InitLimitWindow),
           mint_capacity_used |-> Some(0), mint_last_updated |-> None,
           redeem_capacity_used |-> Some(0), redeem_last_updated |-> None,
           minting_paused |-> FALSE, redemption_paused |-> FALSE,
           default_user_rate_limit |-> Some(InitUserRateLimit),
           default_user_limit_window |-> Some(InitLimitWindow)]
    /\ sanity_check_account =
          [last_price |-> InitLastPrice, allowed_deviation_bps |-> InitDeviationBps,
           max_time_delay |-> InitMaxTimeDelay, price_last_updated |-> StartTime]
    /\ ondo_user = [u \in Users |-> None]
    /\ attestation = [id \in AttestationIds |-> None]
    /\ whitelist = Users
    /\ usdon_manager_state = [oracle_price_enabled |-> TRUE, oracle_price_max_age |-> 60]
    /\ bal = [a \in {"usdon", "usdc", "gm", "lamports"} |->
                [h \in Users \cup {Vault} |->
                    CASE a = "usdon" -> IF h = Vault THEN InitVaultUsdon ELSE InitUsdon
                      [] a = "usdc" -> IF h = Vault THEN InitVaultUsdc ELSE InitUsdc
                      [] a = "lamports" -> IF h = Vault THEN 0 ELSE InitLamports
                      [] OTHER -> IF h = Vault THEN 0 ELSE InitGm]]
    /\ clock = StartTime
    /\ last = [op |-> "init", err |-> "Ok"]
    /\ host = NoHost
    /\ util = NoCall

Trades == UnwrapOr(gmtoken_manager_state.execution_id, 0)

\* The trade instructions, submitted with a call described in K.
MintWithUsdon(K) ==
    /\ Trades < MaxTrades
    /\ \E k \in K : Invoke("mint_with_usdon", mint_with_usdon(Accounts, MkCall(clock, BUY, k)))

MintWithUsdc(K) ==
    /\ Trades < MaxTrades
    /\ \E k \in K : Invoke("mint_with_usdc", mint_with_usdc(Accounts, MkCall(clock, BUY, k)))

RedeemForUsdon(K) ==
    /\ Trades < MaxTrades
    /\ \E k \in K : Invoke("redeem_for_usdon", redeem_for_usdon(Accounts, MkCall(clock, SELL, k)))

RedeemForUsdc(K) ==
    /\ Trades < MaxTrades
    /\ \E k \in K : Invoke("redeem_for_usdc", redeem_for_usdc(Accounts, MkCall(clock, SELL, k)))

SetLastPrice(P) ==
    \E p \in P : Invoke("set_last_price", set_last_price(Accounts, p))

PauseGlobalMinting == Invoke("pause_global_minting", pause_global_minting(Accounts))
ResumeGlobalMinting == Invoke("resume_global_minting", resume_global_minting(Accounts))
PauseGlobalRedemption == Invoke("pause_global_redemption", pause_global_redemption(Accounts))
ResumeGlobalRedemption == Invoke("resume_global_redemption", resume_global_redemption(Accounts))
PauseGmtokenMinting == Invoke("pause_gmtoken_minting", pause_gmtoken_minting(Accounts))
ResumeGmtokenMinting == Invoke("resume_gmtoken_minting", resume_gmtoken_minting(Accounts))
PauseGmtokenRedemption == Invoke("pause_gmtoken_redemption", pause_gmtoken_redemption(Accounts))
ResumeGmtokenRedemption == Invoke("resume_gmtoken_redemption", resume_gmtoken_redemption(Accounts))

CloseAttestationAccount ==
    \E id \in AttestationIds, u \in Users :
        Invoke("close_attestation_account", close_attestation_account(Accounts, id, u))

\* Time passes between transactions.
Tick ==
    \E d \in TickDeltas :
        /\ clock + d <= MaxTime
        /\ clock' = clock + d
        /\ last' = [op |-> "tick", err |-> "Ok"]
        /\ UNCHANGED <<gmtoken_manager_state, token_limit_account, sanity_check_account,
                       ondo_user, attestation, whitelist, usdon_manager_state, bal, host, util>>

Next ==
    \/ MintWithUsdon(TradeParams)
    \/ MintWithUsdc(UsdcTradeParams)
    \/ RedeemForUsdon(TradeParams)
    \/ RedeemForUsdc(UsdcTradeParams)
    \/ CloseAttestationAccount
    \/ Tick

Spec == Init /\ [][Next]_vars

\* The price record under refreshes to several prices.
AltLastPrice == 1000000019

NextPrice ==
    \/ MintWithUsdon(PriceParams)
    \/ RedeemForUsdon(PriceParams)
    \/ SetLastPrice({0, InitLastPrice, AltLastPrice})
    \/ CloseAttestationAccount
    \/ Tick

SpecPrice == Init /\ [][NextPrice]_vars

\* The pause flags under the pausers' and the admin's instructions.
NextPause ==
    \/ MintWithUsdon(PauseParams)
    \/ MintWithUsdc(PauseParams)
    \/ RedeemForUsdon(PauseParams)
    \/ RedeemForUsdc(PauseParams)
    \/ PauseGlobalMinting
    \/ ResumeGlobalMinting
    \/ PauseGlobalRedemption
    \/ ResumeGlobalRedemption
    \/ PauseGmtokenMinting
    \/ ResumeGmtokenMinting
    \/ PauseGmtokenRedemption
    \/ ResumeGmtokenRedemption

SpecPause == Init /\ [][NextPause]_vars

(***************************************************************************)
(* Further specifications: the whitelist and the signer, the limit         *)
(* configuration, the trading hours, and the closing of replay guards.     *)
(***************************************************************************)
\* The state after initialisation with the manager record gm, the limit
\* record tl and the whitelist wl, at time t.
InitialStateWith(gm, tl, sc, wl, t) ==
    /\ gmtoken_manager_state = gm
    /\ token_limit_account = tl
    /\ sanity_check_account = sc
    /\ ondo_user = [u \in Users |-> None]
    /\ attestation = [id \in AttestationIds |-> None]
    /\ whitelist = wl
    /\ usdon_manager_state = [oracle_price_enabled |-> TRUE, oracle_price_max_age |-> 60]
    /\ bal = [a \in {"usdon", "usdc", "gm", "lamports"} |->
                [h \in Users \cup {Vault} |->
                    CASE a = "usdon" -> IF h = Vault THEN InitVaultUsdon ELSE InitUsdon
                      [] a = "usdc" -> IF h = Vault THEN InitVaultUsdc ELSE InitUsdc
                      [] a = "lamports" -> IF h = Vault THEN 0 ELSE InitLamports
                      [] OTHER -> IF h = Vault THEN 0 ELSE InitGm]]
    /\ clock = t
    /\ last = [op |-> "init", err |-> "Ok"]
    /\ host = NoHost
    /\ util = NoCall

InitialState(gm, tl, wl, t) ==
    InitialStateWith(gm, tl, initialize_sanity_check(InitLastPrice, InitDeviationBps, InitMaxTimeDelay, t).val, wl, t)

InitTokenLimit ==
    initialize_token_limit(Some(InitRateLimit), Some(InitLimitWindow),
                           Some(InitUserRateLimit), Some(InitLimitWindow)).val

AddToWhitelist ==
    \E u \in Users : Invoke("add_to_whitelist", add_to_whitelist(Accounts, u))

RemoveFromWhitelist ==
    \E u \in Users : Invoke("remove_from_whitelist", remove_from_whitelist(Accounts, u))

Signers == {ZERO_ADDRESS, TrustedSigner, OtherSigner}

SetAttestationSignerSecp ==
    \E a \in Signers :
        Invoke("set_attestation_signer_secp", set_attestation_signer_secp(Accounts, a))

\* Attested calls of both users, and calls signed by another key or
\* reporting the all-zero address as signer.
AccessParams ==
    {<<u, id, InitLastPrice, BaseAmount, MAX_ATTESTATION_EXPIRATION, v, 0>> :
        u \in Users, id \in AttestationIds, v \in {0, 12, ZeroSigned}}

InitAccess ==
    \E a \in {ZERO_ADDRESS, TrustedSigner}, wl \in SUBSET Users :
        InitialState(initialize_gmtoken_manager(FALSE, FALSE, a, 0).val,
                     InitTokenLimit, wl, StartTime)

NextAccess ==
    \/ MintWithUsdon(AccessParams)
    \/ RedeemForUsdon(AccessParams)
    \/ AddToWhitelist
    \/ RemoveFromWhitelist
    \/ SetAttestationSignerSecp

SpecAccess == InitAccess /\ [][NextAccess]_vars

(***************************************************************************)
(* The limiters' configuration: the asset's limiter is created with or     *)
(* without its limit pair and its users' defaults, and the administrator   *)
(* reconfigures it and creates and configures user records.                *)
(***************************************************************************)
RateLimits == {None, Some(InitRateLimit)}
UserRateLimits == {None, Some(InitUserRateLimit)}
LimitWindows == {None, Some(InitLimitWindow)}

SetTokenLimit ==
    \E rl \in RateLimits, lw \in LimitWindows \cup {Some(0)},
       durl \in UserRateLimits, dulw \in LimitWindows :
        Invoke("set_token_limit", set_token_limit(Accounts, rl, lw, durl, dulw))

InitializeUser ==
    \E u \in Users, rl \in UserRateLimits, lw \in LimitWindows :
        Invoke("initialize_user", initialize_user(Accounts, u, rl, lw))

SetOndoUserLimits ==
    \E u \in Users, lw \in {0, InitLimitWindow} :
        Invoke("set_ondo_user_limits",
               set_ondo_user_limits(Accounts, u, InitUserRateLimit, lw))

\* Attested calls of both users at the reference price.
LimitParams ==
    {<<u, id, InitLastPrice, BaseAmount, MAX_ATTESTATION_EXPIRATION, 0, 0>> :
        u \in Users, id \in AttestationIds}

InitLimits ==
    \E rl \in RateLimits, lw \in LimitWindows, durl \in UserRateLimits, dulw \in LimitWindows :
        InitialState(initialize_gmtoken_manager(FALSE, FALSE, TrustedSigner, 0).val,
                     initialize_token_limit(rl, lw, durl, dulw).val, Users, StartTime)

NextLimits ==
    \/ MintWithUsdon(LimitParams)
    \/ RedeemForUsdon(LimitParams)
    \/ SetTokenLimit
    \/ InitializeUser
    \/ SetOndoUserLimits

SpecLimits == InitLimits /\ [][NextLimits]_vars

(***************************************************************************)
(* The trading hours: the manager is initialised with a valid offset at   *)
(* one of the times below (midnights of the shifted calendars and the      *)
(* seconds before them, the first hours of the epoch included), the        *)
(* administrator sets the offset, and users trade.                         *)
(***************************************************************************)
ValidOffsets ==
    {-12 * SECONDS_PER_HOUR, -SECONDS_PER_HOUR, 0, 14 * SECONDS_PER_HOUR}

Offsets == ValidOffsets \cup {-12 * SECONDS_PER_HOUR - 1, 14 * SECONDS_PER_HOUR + 1}

HourTimes ==
    {0, SECONDS_PER_HOUR - 1, SECONDS_PER_HOUR,
     12 * SECONDS_PER_HOUR - 1, 12 * SECONDS_PER_HOUR}
    \cup {d * SECONDS_PER_DAY + h * SECONDS_PER_HOUR - e :
             d \in {2, 4}, h \in {-14, 0, 12}, e \in {0, 1}}

SetTradingHoursOffset ==
    \E o \in Offsets :
        Invoke("set_trading_hours_offset", set_trading_hours_offset(Accounts, o))

\* An attested call of one user at the reference price.
HoursParams ==
    {<<"u1", id, InitLastPrice, BaseAmount, MAX_ATTESTATION_EXPIRATION, 0, 0>> :
        id \in AttestationIds}

InitHours ==
    \E o \in Offsets, t \in HourTimes :
        /\ initialize_gmtoken_manager(FALSE, FALSE, TrustedSigner, o).ok
        /\ InitialState(initialize_gmtoken_manager(FALSE, FALSE, TrustedSigner, o).val,
                        InitTokenLimit, Users, t)

NextHours ==
    \/ MintWithUsdon(HoursParams)
    \/ RedeemForUsdon(HoursParams)
    \/ SetTradingHoursOffset

SpecHours == InitHours /\ [][NextHours]_vars

(***************************************************************************)
(* The sanity-check record: it is initialised with any accepted triple of  *)
(* the values below, its three setters are called with values on both      *)
(* sides of their limits, and a user trades at prices around the last one. *)
(***************************************************************************)
LastPrices == {0, 1, InitLastPrice}
DeviationsBps == {0, InitDeviationBps, BASIS_POINTS_DIVISOR, BASIS_POINTS_DIVISOR + 1}
TimeDelays == {-1, InitMaxTimeDelay, MAX_SECONDS_EXPIRATION, MAX_SECONDS_EXPIRATION + 1}

SetAllowedDeviationBps ==
    \E b \in DeviationsBps :
        Invoke("set_allowed_deviation_bps", set_allowed_deviation_bps(Accounts, b))

SetMaxTimeDelay ==
    \E d \in TimeDelays : Invoke("set_max_time_delay", set_max_time_delay(Accounts, d))

InitSanity ==
    \E p \in LastPrices, b \in DeviationsBps, d \in TimeDelays :
        /\ initialize_sanity_check(p, b, d, StartTime).ok
        /\ InitialStateWith(initialize_gmtoken_manager(FALSE, FALSE, TrustedSigner, 0).val,
                            InitTokenLimit, initialize_sanity_check(p, b, d, StartTime).val,
                            Users, StartTime)

NextSanity ==
    \/ MintWithUsdon(PriceParams)
    \/ RedeemForUsdon(PriceParams)
    \/ SetLastPrice(LastPrices)
    \/ SetAllowedDeviationBps
    \/ SetMaxTimeDelay

SpecSanity == InitSanity /\ [][NextSanity]_vars

(***************************************************************************)
(* The user records: the users trade, time passes, and the administrator   *)
(* changes the defaults the asset gives to new users.                      *)
(***************************************************************************)
DefaultUserRateLimits == {None, Some(BaseAmount - 1), Some(InitUserRateLimit)}
DefaultUserLimitWindows == {None, Some(InitLimitWindow), Some(2 * InitLimitWindow)}

SetDefaultUserLimits ==
    \E durl \in DefaultUserRateLimits, dulw \in DefaultUserLimitWindows :
        Invoke("set_token_limit", set_token_limit(Accounts, None, None, durl, dulw))

NextUsers ==
    \/ MintWithUsdon(LimitParams)
    \/ RedeemForUsdon(LimitParams)
    \/ SetDefaultUserLimits
    \/ Tick

SpecUsers == Init /\ [][NextUsers]_vars

(***************************************************************************)
(* The oracle guard: the administrator switches the oracle price on and    *)
(* off, and users trade in USDon and in USDC with price feeds that pass    *)
(* the guard (0, 8, 10) or fail one of its checks.                         *)
(***************************************************************************)
OracleFeedVariants == {0, 2, 3, 4, 5, 6, 7, 8, 9, 10}

OracleParams ==
    {<<u, id, InitLastPrice, BaseAmount, MAX_ATTESTATION_EXPIRATION, 0, v>> :
        u \in Users, id \in AttestationIds, v \in OracleFeedVariants}

EnableOraclePrice ==
    \E is_enabled \in BOOLEAN :
        Invoke("enable_oracle_price", enable_oracle_price(Accounts, is_enabled))

NextOracle ==
    \/ MintWithUsdon(OracleParams)
    \/ MintWithUsdc(OracleParams)
    \/ RedeemForUsdon(OracleParams)
    \/ RedeemForUsdc(OracleParams)
    \/ EnableOraclePrice

SpecOracle == Init /\ [][NextOracle]_vars

(***************************************************************************)
(* The signature record: a user trades with every transaction variant     *)
(* while the administrator changes the trusted signer.                     *)
(***************************************************************************)
SecpParams ==
    {<<"u1", id, InitLastPrice, BaseAmount, MAX_ATTESTATION_EXPIRATION, v, 0>> :
        id \in AttestationIds, v \in TxVariants}

NextSecp ==
    \/ MintWithUsdon(SecpParams)
    \/ RedeemForUsdon(SecpParams)
    \/ SetAttestationSignerSecp

SpecSecp == Init /\ [][NextSecp]_vars

(***************************************************************************)
(* The closing of replay-guard records: both users trade, time passes,     *)
(* and anybody closes records, one by one or in batch, naming a recipient. *)
(***************************************************************************)
\* The remaining_accounts of a batch: one or two records, the same record
\* twice included.
Batches ==
    {<<id>> : id \in AttestationIds} \cup {<<a, b>> : a \in AttestationIds, b \in AttestationIds}

BatchCloseAttestationAccounts ==
    \E remaining_accounts \in Batches, u \in Users :
        Invoke("batch_close_attestation_accounts",
               batch_close_attestation_accounts(Accounts, remaining_accounts, u))

\* Attested calls of both users at the reference price.
CloseParams ==
    {<<u, id, InitLastPrice, BaseAmount, MAX_ATTESTATION_EXPIRATION, 0, 0>> :
        u \in Users, id \in AttestationIds}

NextClose ==
    \/ MintWithUsdon(CloseParams)
    \/ RedeemForUsdon(CloseParams)
    \/ CloseAttestationAccount
    \/ BatchCloseAttestationAccounts
    \/ Tick

SpecClose == Init /\ [][NextClose]_vars

(***************************************************************************)
(* Concurrent trades.  The host runs a transaction on a copy of the        *)
(* accounts it names, loaded when the transaction starts, and stores the   *)
(* accounts it declared writable when it ends; it does not start a         *)
(* transaction while a running one has declared writable an account the    *)
(* new one names, or names an account the new one declares writable.       *)
(***************************************************************************)
\* The accounts USDonSwapContext marks mut or init_if_needed, for the call
\* c: they are locked for writing and stored when the instruction ends.
WritableAccounts_without_shared_records(c) ==
    {<<"ondo_user", c.user>>, <<"attestation", c.attestation_id>>,
     <<"bal", "lamports", c.user>>, <<"bal", "gm", c.user>>, <<"bal", "usdon", c.user>>,
     <<"bal", "usdon", Vault>>}

WritableAccounts(c) ==
    {<<"gmtoken_manager_state">>, <<"token_limit_account">>, <<"sanity_check_account">>,
     <<"ondo_user", c.user>>, <<"attestation", c.attestation_id>>,
     <<"bal", "lamports", c.user>>, <<"bal", "gm", c.user>>, <<"bal", "usdon", c.user>>,
     <<"bal", "usdon", Vault>>}

\* The accounts it names without mut.
ReadonlyAccounts(c) == {<<"whitelist", c.user>>, <<"usdon_manager_state">>}

\* The accounts cur with the accounts of W taken from new.
Store(cur, new, W) ==
    [gm |-> IF <<"gmtoken_manager_state">> \in W THEN new.gm ELSE cur.gm,
     tl |-> IF <<"token_limit_account">> \in W THEN new.tl ELSE cur.tl,
     sc |-> IF <<"sanity_check_account">> \in W THEN new.sc ELSE cur.sc,
     ondo_user |-> [u \in Users |->
                      IF <<"ondo_user", u>> \in W THEN new.ondo_user[u] ELSE cur.ondo_user[u]],
     attestation |-> [id \in AttestationIds |->
                        IF <<"attestation", id>> \in W
                        THEN new.attestation[id] ELSE cur.attestation[id]],
     whitelist |-> cur.whitelist,
     usdon_manager |-> cur.usdon_manager,
     bal |-> [a \in DOMAIN cur.bal |-> [h \in DOMAIN cur.bal[a] |->
                IF <<"bal", a, h>> \in W THEN new.bal[a][h] ELSE cur.bal[a][h]]],
     now |-> cur.now]

\* Two transactions cannot run at the same time.
Conflict(c, d) ==
    \/ WritableAccounts(c) \cap (WritableAccounts(d) \cup ReadonlyAccounts(d)) # {}
    \/ WritableAccounts(d) \cap (WritableAccounts(c) \cup ReadonlyAccounts(c)) # {}

ConcurrentOps == {"mint_with_usdon", "redeem_for_usdon"}

\* The call of a transaction, and the instruction run on the accounts st.
CallOf(x) == MkCall(clock, IF x.op = "mint_with_usdon" THEN BUY ELSE SELL, x.k)

Run(x, st) ==
    IF x.op = "mint_with_usdon" THEN mint_with_usdon(st, CallOf(x))
    ELSE redeem_for_usdon(st, CallOf(x))

\* Attested calls of both users, half or all of a user's limit each.
ConcurrentParams ==
    {<<u, id, InitLastPrice, a, MAX_ATTESTATION_EXPIRATION, 0, 0>> :
        u \in Users, id \in AttestationIds, a \in {BaseAmount, 2 * BaseAmount}}

HostIdle == \A t \in Slots : host.tx[t].stage = "none"

\* Two transactions are submitted at the same time.
Submit ==
    /\ HostIdle
    /\ \E o1 \in ConcurrentOps, o2 \in ConcurrentOps,
          k1 \in ConcurrentParams, k2 \in ConcurrentParams :
          host' = [base |-> Some(Accounts),
                   tx |-> (1 :> [NoTransaction EXCEPT !.stage = "queued", !.op = o1, !.k = k1]
                           @@ 2 :> [NoTransaction EXCEPT !.stage = "queued", !.op = o2, !.k = k2])]
    /\ UNCHANGED <<gmtoken_manager_state, token_limit_account, sanity_check_account,
                   ondo_user, attestation, whitelist, usdon_manager_state, bal, clock, last, util>>

\* The host starts a queued transaction that conflicts with no running one.
Begin ==
    \E t \in Slots :
        /\ host.tx[t].stage = "queued"
        /\ \A s \in Slots \ {t} :
              host.tx[s].stage = "running" => ~Conflict(CallOf(host.tx[t]), CallOf(host.tx[s]))
        /\ host' = [host EXCEPT !.tx[t].stage = "running", !.tx[t].copy = Some(Accounts)]
        /\ UNCHANGED <<gmtoken_manager_state, token_limit_account, sanity_check_account,
                       ondo_user, attestation, whitelist, usdon_manager_state, bal, clock,
                       last, util>>

\* A running transaction ends: a successful one stores its writable
\* accounts, a failed one nothing.
Finish ==
    \E t \in Slots :
        /\ host.tx[t].stage = "running"
        /\ Then(Run(host.tx[t], Unwrap(host.tx[t].copy)), LAMBDA r :
              /\ Install(IF r.ok
                         THEN Store(Accounts, r.st, WritableAccounts(CallOf(host.tx[t])))
                         ELSE Accounts)
              /\ last' = [op |-> host.tx[t].op, err |-> r.err]
              /\ host' = [host EXCEPT !.tx[t].stage = "done", !.tx[t].copy = None,
                                       !.tx[t].err = r.err]
              /\ util' = util)

NextConcurrent ==
    \/ (HostIdle /\ MintWithUsdon(PauseParams))
    \/ Submit
    \/ Begin
    \/ Finish

SpecConcurrent == Init /\ [][NextConcurrent]_vars

(***************************************************************************)
(* Properties                                                              *)
(***************************************************************************)
TradeOps == {"mint_with_usdon", "mint_with_usdc", "redeem_for_usdon", "redeem_for_usdc"}

\* P(c, r) for every call c explored and the result r of each mint (resp.
\* redeem) entry point for c in the current state.
ForAllMints(P(_, _)) ==
    \A k \in CallParams :
        /\ P(MkCall(clock, BUY, k), mint_with_usdon(Accounts, MkCall(clock, BUY, k)))
        /\ P(MkCall(clock, BUY, k), mint_with_usdc(Accounts, MkCall(clock, BUY, k)))

ForAllRedeems(P(_, _)) ==
    \A k \in CallParams :
        /\ P(MkCall(clock, SELL, k), redeem_for_usdon(Accounts, MkCall(clock, SELL, k)))
        /\ P(MkCall(clock, SELL, k), redeem_for_usdc(Accounts, MkCall(clock, SELL, k)))

MintingPaused == gmtoken_manager_state.minting_paused \/ token_limit_account.minting_paused
RedemptionPaused ==
    gmtoken_manager_state.redemption_paused \/ token_limit_account.redemption_paused

\* The call c passes the checks that precede the replay guard, the pause
\* gates aside.
PassesPreconditions(c) ==
    /\ c.user \in whitelist
    /\ c.amount > 0
    /\ c.price > 0
    /\ ((clock + gmtoken_manager_state.trading_hours_offset) \div SECONDS_PER_DAY + 3) % 7 < 5
    /\ clock < c.expiration
    /\ c.expiration - clock <= MAX_ATTESTATION_EXPIRATION

\* C1, as amended: while the replay-guard record of attestation id X exists,
\* every mint and every redeem submitted with id X fails, whatever price,
\* amount, side or user it carries, and it fails with AttestationAlreadyUsed
\* whenever it passes the checks made before the replay guard (pause gates,
\* whitelist, amount > 0, price > 0, trading hours, expiration window).
C1_ReplayRejected ==
    /\ ForAllMints(LAMBDA c, r :
          IsSome(attestation[c.attestation_id]) =>
             /\ ~r.ok
             /\ (~MintingPaused /\ PassesPreconditions(c)) => r.err = "AttestationAlreadyUsed")
    /\ ForAllRedeems(LAMBDA c, r :
          IsSome(attestation[c.attestation_id]) =>
             /\ ~r.ok
             /\ (~RedemptionPaused /\ PassesPreconditions(c)) => r.err = "AttestationAlreadyUsed")

\* C1 as stated: every trade submitted with a used id fails with
\* AttestationAlreadyUsed.
C1_AlwaysAlreadyUsed ==
    /\ ForAllMints(LAMBDA c, r :
          IsSome(attestation[c.attestation_id]) => r.err = "AttestationAlreadyUsed")
    /\ ForAllRedeems(LAMBDA c, r :
          IsSome(attestation[c.attestation_id]) => r.err = "AttestationAlreadyUsed")

\* A trade was submitted with a used id and rejected by the replay guard.
C1_Witness ==
    /\ last.op \in TradeOps
    /\ last.err = "AttestationAlreadyUsed"
    /\ \E id \in AttestationIds : IsSome(attestation[id])

FloorNotional(price, amount) ==
    ((price \div 100000) * amount + ((price % 100000) * amount) \div 100000) \div 10000

CeilNotional(price, amount) ==
    FloorNotional(price, amount) +
    (IF /\ ((price % 100000) * amount) % 100000 = 0
        /\ ((price \div 100000) * amount + ((price % 100000) * amount) \div 100000) % 10000 = 0
     THEN 0 ELSE 1)

Max(a, b) == IF a >= b THEN a ELSE b

\* The limiter record of a user: the stored one, or the one a first trade
\* creates.
UserLimiter(u) ==
    IF IsSome(ondo_user[u]) THEN Unwrap(ondo_user[u])
    ELSE [rate_limit |-> token_limit_account.default_user_rate_limit,
          limit_window |-> token_limit_account.default_user_limit_window,
          mint_capacity_used |-> Some(0), mint_last_updated |-> None,
          redeem_capacity_used |-> Some(0), redeem_last_updated |-> None]

Used(lim, is_buy) ==
    Unwrap(IF is_buy THEN lim.mint_capacity_used ELSE lim.redeem_capacity_used)

Elapsed(lim, is_buy) ==
    clock - UnwrapOr(IF is_buy THEN lim.mint_last_updated ELSE lim.redeem_last_updated, clock)

\* The capacity of the limiter lim still in use now, and what is left.
Decayed(lim, is_buy) ==
    IF Elapsed(lim, is_buy) >= Unwrap(lim.limit_window) THEN 0
    ELSE Max(Used(lim, is_buy)
             - (Unwrap(lim.rate_limit) * Elapsed(lim, is_buy)) \div Unwrap(lim.limit_window), 0)

Available(lim, is_buy) == Max(Unwrap(lim.rate_limit) - Decayed(lim, is_buy), 0)

Configured(lim) == IsSome(lim.rate_limit) /\ IsSome(lim.limit_window)

\* The limiter record new is the record lim after a trade worth n.
Stepped(lim, new, n, is_buy) ==
    IF is_buy
    THEN new = [lim EXCEPT !.mint_capacity_used = Some(Decayed(lim, TRUE) + n),
                           !.mint_last_updated = Some(clock)]
    ELSE new = [lim EXCEPT !.redeem_capacity_used = Some(Decayed(lim, FALSE) + n),
                           !.redeem_last_updated = Some(clock)]

\* r, the result of one limiter for a trade worth n, is the step of C3.
LimiterStep(lim, r, n, is_buy) ==
    /\ r.ok <=> n <= Available(lim, is_buy)
    /\ r.ok => Stepped(lim, r.val, n, is_buy)
    /\ ~r.ok => r.err = "InvalidRateLimit"

\* A successful trade worth n = ceil(price * amount / 10^9) was accepted by
\* both limiters and stored the step of both.
TradeStepped(c, r, is_buy) ==
    r.ok =>
      /\ CeilNotional(c.price, c.amount) <= Available(token_limit_account, is_buy)
      /\ CeilNotional(c.price, c.amount) <= Available(UserLimiter(c.user), is_buy)
      /\ Stepped(token_limit_account, r.st.tl, CeilNotional(c.price, c.amount), is_buy)
      /\ Stepped(UserLimiter(c.user), Unwrap(r.st.ondo_user[c.user]),
                 CeilNotional(c.price, c.amount), is_buy)

\* C3: for the asset-level and the user-level limiter and each direction,
\* with rate_limit and window configured, a notional n is accepted at time
\* now iff n <= max(rate_limit - decayed, 0), where decayed is 0 if
\* now - last_updated >= window and max(capacity_used -
\* floor(rate_limit * (now - last_updated) / window), 0) otherwise, and
\* acceptance stores capacity_used = decayed + n and last_updated = now; a
\* trade's notional is ceil(price * amount / 10^9).  With rate_limit 100,
\* window 60 and 100 consumed 30 seconds ago, 60 is rejected and 50 is
\* accepted and leaves capacity_used = 100.
C3_LimiterStep ==
    /\ \A is_buy \in BOOLEAN :
          /\ Configured(token_limit_account) =>
                \A n \in 0..(Unwrap(token_limit_account.rate_limit) + 1) :
                    LimiterStep(token_limit_account,
                                check_rate_limit(token_limit_account, n, clock, is_buy),
                                n, is_buy)
          /\ \A u \in Users :
                Configured(UserLimiter(u)) =>
                    \A n \in 0..(Unwrap(UserLimiter(u).rate_limit) + 1) :
                        LimiterStep(UserLimiter(u),
                                    check_rate_limit(UserLimiter(u), n, clock, is_buy),
                                    n, is_buy)
          /\ \A u \in Users :
                (/\ UserLimiter(u).rate_limit = Some(100)
                 /\ UserLimiter(u).limit_window = Some(60)
                 /\ Used(UserLimiter(u), is_buy) = 100
                 /\ Elapsed(UserLimiter(u), is_buy) = 30)
                => /\ ~check_rate_limit(UserLimiter(u), 60, clock, is_buy).ok
                   /\ check_rate_limit(UserLimiter(u), 50, clock, is_buy).ok
                   /\ Used(check_rate_limit(UserLimiter(u), 50, clock, is_buy).val, is_buy) = 100
    /\ ForAllMints(LAMBDA c, r : TradeStepped(c, r, TRUE))
    /\ ForAllRedeems(LAMBDA c, r : TradeStepped(c, r, FALSE))

\* A user who consumed 100 at the start traded 50 more 30 seconds later and
\* has capacity_used = 100 again.
C3_Witness ==
    /\ last = [op |-> "mint_with_usdon", err |-> "Ok"]
    /\ clock = StartTime + 30
    /\ \E u \in Users :
          /\ IsSome(ondo_user[u])
          /\ UserLimiter(u).rate_limit = Some(100)
          /\ UserLimiter(u).limit_window = Some(60)
          /\ UserLimiter(u).mint_capacity_used = Some(100)
          /\ UserLimiter(u).mint_last_updated = Some(clock)
          /\ bal["gm"][u] = InitGm + 150

\* C4: a mint or redeem succeeds only if the asset-level and the user-level
\* limiter both accept its notional, and a trade rejected by either
\* limiter leaves both limiters as they were, the asset-level one included
\* when only the user-level limiter rejected.
C4_BothLimiters ==
    /\ [](/\ ForAllMints(LAMBDA c, r :
                 r.ok => /\ CeilNotional(c.price, c.amount)
                               <= Available(token_limit_account, TRUE)
                         /\ CeilNotional(c.price, c.amount)
                               <= Available(UserLimiter(c.user), TRUE))
           /\ ForAllRedeems(LAMBDA c, r :
                 r.ok => /\ CeilNotional(c.price, c.amount)
                               <= Available(token_limit_account, FALSE)
                         /\ CeilNotional(c.price, c.amount)
                               <= Available(UserLimiter(c.user), FALSE)))
    /\ [][(last'.op \in TradeOps /\ last'.err = "InvalidRateLimit") =>
             UNCHANGED <<token_limit_account, ondo_user>>]_vars

\* A trade that the asset-level limiter accepts (it accepts the largest
\* notional the trade actions submit) was rejected by the user-level
\* limiter, and the asset-level limiter holds what it held.
C4_Witness ==
    /\ last.op \in TradeOps
    /\ last.err = "InvalidRateLimit"
    /\ Available(token_limit_account, TRUE) >= 100
    /\ Available(token_limit_account, FALSE) >= 100
    /\ Used(token_limit_account, TRUE) > 0
    /\ \E u \in Users : Available(UserLimiter(u), TRUE) < 100

\* The call c carries the trusted signer's signature of its own fields for
\* the given side.
Attested(c, side) ==
    /\ c.tx.prev.attested
          = Fields(c.user, c.attestation_id, side, c.price, c.amount, c.expiration)
    /\ c.tx.prev.attested[5] = c.mint
    /\ c.tx.prev.msg = HashOf(c.tx.prev.attested)
    /\ c.tx.prev.eth_addr = gmtoken_manager_state.attestation_signer_secp

\* C5: a mint (a redeem) succeeds only if the digest the inspected
\* signature verification reports is the hash of the chain id, the
\* attestation id, the side buy (sell), the submitting user, the traded
\* asset, the price, the amount and the expiration of the call itself, and
\* the signer it reports is the configured trusted signer: a signature of
\* fields that differ in any of them authorises nothing.
C5_AttestationBinding ==
    /\ ForAllMints(LAMBDA c, r : r.ok => Attested(c, BUY))
    /\ ForAllRedeems(LAMBDA c, r : r.ok => Attested(c, SELL))

\* A trade carrying the trusted signer's signature of another price was
\* rejected for its digest.
C5_Witness ==
    /\ last.op \in TradeOps
    /\ last.err = "DigestMismatch"

\* The pause gates and the checks made before the lifetime check pass for
\* the call c.
ReachesLifetimeCheck(c, is_buy) ==
    /\ IF is_buy THEN ~MintingPaused ELSE ~RedemptionPaused
    /\ c.user \in whitelist
    /\ c.amount > 0
    /\ c.price > 0
    /\ ((clock + gmtoken_manager_state.trading_hours_offset) \div SECONDS_PER_DAY + 3) % 7 < 5

Lifetime(c, r, is_buy) ==
    /\ r.ok => (0 < c.expiration - clock /\ c.expiration - clock <= 30)
    /\ ReachesLifetimeCheck(c, is_buy) =>
          /\ c.expiration <= clock => r.err = "AttestationExpired"
          /\ c.expiration - clock > 30 => r.err = "AttestationExpirationTooLarge"
          /\ (0 < c.expiration - clock /\ c.expiration - clock <= 30) =>
                r.err \notin {"AttestationExpired", "AttestationExpirationTooLarge"}

\* C6: a mint or redeem at time now with expiration E succeeds only if
\* 0 < E - now <= 30; a trade that reaches the lifetime check fails with
\* AttestationExpired if E <= now and with AttestationExpirationTooLarge if
\* E - now > 30 (E = now + 31 included), and is not rejected for its
\* lifetime if 0 < E - now <= 30 (E = now + 30 included).
C6_LifetimeWindow ==
    /\ ForAllMints(LAMBDA c, r : Lifetime(c, r, TRUE))
    /\ ForAllRedeems(LAMBDA c, r : Lifetime(c, r, FALSE))

\* A trade with E = now + 31 was rejected, and a trade with E = now + 30
\* would succeed.
C6_Witness ==
    /\ last.op \in TradeOps
    /\ last.err = "AttestationExpirationTooLarge"
    /\ \E k \in TradeParams :
          /\ k[5] = 30
          /\ mint_with_usdon(Accounts, MkCall(clock, BUY, k)).ok

\* The balances of st are those of the current state with the user paying
\* (receiving, if negative) paid of the stable asset to (from) the vault
\* or the mint, and receiving got of the traded asset.
Settled(st, u, paid, got) ==
    /\ st.bal["usdon"][u] = bal["usdon"][u] - paid
    /\ st.bal["gm"][u] = bal["gm"][u] + got
    /\ \A v \in Users \ {u} : /\ st.bal["usdon"][v] = bal["usdon"][v]
                              /\ st.bal["gm"][v] = bal["gm"][v]

\* The call of k with the other attestation id.
OtherId(k) == [k EXCEPT ![2] = IF k[2] = "a1" THEN "a2" ELSE "a1"]

\* C9: a successful mint paid in USDon gives the user exactly amount of the
\* traded asset and takes exactly ceil(price * amount / 10^9) USDon from the
\* user; a successful redeem for USDon burns exactly amount of the traded
\* asset and pays exactly floor(price * amount / 10^9); the charge of a
\* mint is at least the payout of a redeem of the same price and amount,
\* and a mint followed by a redeem of the same amount at the same price
\* never leaves the user with more USDon than before.
C9_SettlementRounding ==
    \A k \in CallParams :
        /\ mint_with_usdon(Accounts, MkCall(clock, BUY, k)).ok =>
              /\ Settled(mint_with_usdon(Accounts, MkCall(clock, BUY, k)).st, k[1],
                         CeilNotional(k[3], k[4]), k[4])
              /\ mint_with_usdon(Accounts, MkCall(clock, BUY, k)).st.bal["usdon"][Vault]
                    = bal["usdon"][Vault] + CeilNotional(k[3], k[4])
              /\ redeem_for_usdon(mint_with_usdon(Accounts, MkCall(clock, BUY, k)).st,
                                  MkCall(clock, SELL, OtherId(k))).ok =>
                    redeem_for_usdon(mint_with_usdon(Accounts, MkCall(clock, BUY, k)).st,
                                     MkCall(clock, SELL, OtherId(k))).st.bal["usdon"][k[1]]
                       <= bal["usdon"][k[1]]
        /\ redeem_for_usdon(Accounts, MkCall(clock, SELL, k)).ok =>
              Settled(redeem_for_usdon(Accounts, MkCall(clock, SELL, k)).st, k[1],
                      0 - FloorNotional(k[3], k[4]), 0 - k[4])
        /\ mul_div(k[3], k[4], PRICE_SCALING_FACTOR, TRUE).val = CeilNotional(k[3], k[4])
        /\ mul_div(k[3], k[4], PRICE_SCALING_FACTOR, FALSE).val = FloorNotional(k[3], k[4])
        /\ CeilNotional(k[3], k[4]) >= FloorNotional(k[3], k[4])

\* A user minted 50 at the price 0.95 and paid 48 USDon, where a redeem of
\* the same amount at the same price pays 47.
C9_Witness ==
    /\ last = [op |-> "mint_with_usdon", err |-> "Ok"]
    /\ \E u \in Users : /\ bal["usdon"][u] = InitUsdon - 48
                        /\ bal["gm"][u] = InitGm + 50
    /\ FloorNotional(950000000, 50) = 47

\* d = floor(last_price * allowed_deviation_bps / 10000), computed from the
\* split last_price = hi * 10000 + lo.
Deviation ==
    (sanity_check_account.last_price \div BASIS_POINTS_DIVISOR)
        * sanity_check_account.allowed_deviation_bps
    + ((sanity_check_account.last_price % BASIS_POINTS_DIVISOR)
        * sanity_check_account.allowed_deviation_bps) \div BASIS_POINTS_DIVISOR

BandMin == sanity_check_account.last_price - Deviation
BandMax == sanity_check_account.last_price + Deviation
InBand(price) == BandMin <= price /\ price <= BandMax
Fresh == clock - sanity_check_account.price_last_updated <= sanity_check_account.max_time_delay

\* The prices probed: those of the calls, and the ends of the band with
\* their neighbours.
PriceProbes ==
    GoodPrices \cup BadPrices
    \cup {BandMin - 1, BandMin, BandMin + 1, BandMax - 1, BandMax, BandMax + 1}

\* r, the result of the sanity check for the price, judges the price by
\* the band.
Banded(price, r) ==
    /\ price > BandMax => r.err = "PriceExceedsMaxDeviation"
    /\ price < BandMin => r.err = "PriceBelowMinDeviation"
    /\ InBand(price) => r.err \in {"Ok", "MaxTimeDelayExceeded"}
    /\ Fresh => (r.ok <=> InBand(price))

\* C7: with d = floor(last_price * allowed_deviation_bps / 10000) the
\* sanity check accepts a price iff last_price - d <= price <=
\* last_price + d, both bounds included; a price above fails with
\* PriceExceedsMaxDeviation, a price below with PriceBelowMinDeviation, and
\* no trade succeeds at a price outside the band.  With last_price
\* 1_000_000_000 and 500 bps the prices 950_000_000 to 1_050_000_000 are
\* accepted, 1_050_000_001 and 949_999_999 are rejected.
C7_PriceBand ==
    /\ Deviation <= sanity_check_account.last_price =>
          \A price \in PriceProbes : Banded(price, sanity_check(Accounts, price, clock))
    /\ (sanity_check_account.last_price = 1000000000
           /\ sanity_check_account.allowed_deviation_bps = 500) =>
          /\ \A price \in {950000000, 950000001, 1000000000, 1049999999, 1050000000} :
                sanity_check(Accounts, price, clock).err \in {"Ok", "MaxTimeDelayExceeded"}
          /\ sanity_check(Accounts, 1050000001, clock).err = "PriceExceedsMaxDeviation"
          /\ sanity_check(Accounts, 949999999, clock).err = "PriceBelowMinDeviation"
    /\ ForAllMints(LAMBDA c, r : r.ok => InBand(c.price))
    /\ ForAllRedeems(LAMBDA c, r : r.ok => InBand(c.price))

\* After a refresh to another price, a trade at a price of the old band was
\* rejected as below the new band, whose bound is not a multiple of d's
\* divisor.
C7_Witness ==
    /\ last.op \in TradeOps
    /\ last.err = "PriceBelowMinDeviation"
    /\ sanity_check_account.last_price = AltLastPrice
    /\ BandMin = 950000019

\* C8: a trade at time now passes the staleness check iff
\* now - price_last_updated <= max_time_delay (exactly max_time_delay
\* passes, one second more fails with MaxTimeDelayExceeded), and
\* set_last_price sets price_last_updated to now, after which the check
\* passes for the next max_time_delay seconds.
C8_PriceFreshness ==
    /\ \A price \in {p \in PriceProbes : InBand(p)} :
          /\ sanity_check(Accounts, price, clock).ok <=> Fresh
          /\ ~Fresh => sanity_check(Accounts, price, clock).err = "MaxTimeDelayExceeded"
          /\ sanity_check(Accounts, price, sanity_check_account.price_last_updated
                                            + sanity_check_account.max_time_delay).ok
          /\ sanity_check(Accounts, price, sanity_check_account.price_last_updated
                                            + sanity_check_account.max_time_delay + 1).err
                = "MaxTimeDelayExceeded"
    /\ \A price \in {InitLastPrice, AltLastPrice} :
          /\ set_last_price(Accounts, price).ok
          /\ set_last_price(Accounts, price).st.sc.price_last_updated = clock
          /\ set_last_price(Accounts, price).st.sc.last_price = price
          /\ \A t \in clock..(clock + sanity_check_account.max_time_delay) :
                sanity_check(set_last_price(Accounts, price).st, price, t).ok
          /\ sanity_check(set_last_price(Accounts, price).st, price,
                          clock + sanity_check_account.max_time_delay + 1).err
                = "MaxTimeDelayExceeded"
    /\ ForAllMints(LAMBDA c, r : r.ok => Fresh)
    /\ ForAllRedeems(LAMBDA c, r : r.ok => Fresh)

\* A trade succeeded more than max_time_delay after the price was first
\* recorded, the price having been refreshed in between.
C8_Witness ==
    /\ last.op \in TradeOps
    /\ last.err = "Ok"
    /\ clock - StartTime > sanity_check_account.max_time_delay
    /\ sanity_check_account.price_last_updated = clock

\* The accounts with the redemption flags (the minting flags) cleared.
WithoutRedemptionFlags ==
    [Accounts EXCEPT !.gm.redemption_paused = FALSE, !.tl.redemption_paused = FALSE]
WithoutMintingFlags ==
    [Accounts EXCEPT !.gm.minting_paused = FALSE, !.tl.minting_paused = FALSE]

Delisted(u) == remove_from_whitelist(Accounts, u).st
Relisted(u) == add_to_whitelist(Delisted(u), u).st

\* C11: a mint or redeem of a user succeeds only if the user's whitelist
\* marker exists; without it (never added, or removed) a trade that is not
\* paused fails with UserNotWhitelisted; remove_from_whitelist removes the
\* marker, add_to_whitelist creates it, and once the user is added again
\* the trades return what they returned before the removal.
C11_WhitelistGate ==
    /\ ForAllMints(LAMBDA c, r :
          /\ r.ok => c.user \in whitelist
          /\ (c.user \notin whitelist /\ ~MintingPaused) => r.err = "UserNotWhitelisted")
    /\ ForAllRedeems(LAMBDA c, r :
          /\ r.ok => c.user \in whitelist
          /\ (c.user \notin whitelist /\ ~RedemptionPaused) => r.err = "UserNotWhitelisted")
    /\ \A u \in Users \ whitelist :
          /\ add_to_whitelist(Accounts, u).ok
          /\ add_to_whitelist(Accounts, u).st.whitelist = whitelist \cup {u}
          /\ ~remove_from_whitelist(Accounts, u).ok
    /\ \A u \in whitelist :
          /\ remove_from_whitelist(Accounts, u).ok
          /\ Delisted(u).whitelist = whitelist \ {u}
          /\ Relisted(u).whitelist = whitelist
          /\ \A k \in {k \in AccessParams : k[1] = u} :
                /\ mint_with_usdon(Delisted(u), MkCall(clock, BUY, k)).err
                      = "UserNotWhitelisted"
                /\ redeem_for_usdon(Delisted(u), MkCall(clock, SELL, k)).err
                      = "UserNotWhitelisted"
                /\ mint_with_usdon(Relisted(u), MkCall(clock, BUY, k)).err
                      = mint_with_usdon(Accounts, MkCall(clock, BUY, k)).err
                /\ redeem_for_usdon(Relisted(u), MkCall(clock, SELL, k)).err
                      = redeem_for_usdon(Accounts, MkCall(clock, SELL, k)).err

\* A user who had traded was removed from the whitelist, and that user's
\* next trade was rejected.
C11_Witness ==
    /\ last.op \in TradeOps
    /\ last.err = "UserNotWhitelisted"
    /\ \E u \in Users :
          /\ u \notin whitelist
          /\ IsSome(ondo_user[u])
          /\ Users \ {u} \subseteq whitelist

\* The call c reaches verify_attestation: it passes the pause gates, the
\* preconditions and the replay guard.
ReachesVerification(c, is_buy) ==
    /\ IF is_buy THEN ~MintingPaused ELSE ~RedemptionPaused
    /\ PassesPreconditions(c)
    /\ IsNone(attestation[c.attestation_id])

\* r is the result of a call c made while the signer is unset.
SignerUnset(c, r, is_buy) ==
    /\ ~r.ok
    /\ ReachesVerification(c, is_buy) => r.err = "AttestationSignerEthAddressNotSet"

\* C12: while the trusted signer address is all-zero, no mint and no
\* redeem succeeds, whatever signature record accompanies it (one that
\* reports the all-zero address as signer included), and a call that
\* reaches the verification fails with AttestationSignerEthAddressNotSet.
C12_UnsetSigner ==
    gmtoken_manager_state.attestation_signer_secp = ZERO_ADDRESS =>
      /\ ForAllMints(LAMBDA c, r : SignerUnset(c, r, TRUE))
      /\ ForAllRedeems(LAMBDA c, r : SignerUnset(c, r, FALSE))
      /\ \A k \in AccessParams :
            /\ SignerUnset(MkCall(clock, BUY, k),
                           mint_with_usdon(Accounts, MkCall(clock, BUY, k)), TRUE)
            /\ SignerUnset(MkCall(clock, BUY, k),
                           mint_with_usdc(Accounts, MkCall(clock, BUY, k)), TRUE)
            /\ SignerUnset(MkCall(clock, SELL, k),
                           redeem_for_usdon(Accounts, MkCall(clock, SELL, k)), FALSE)
            /\ SignerUnset(MkCall(clock, SELL, k),
                           redeem_for_usdc(Accounts, MkCall(clock, SELL, k)), FALSE)

\* After a successful trade the signer was set to the all-zero address,
\* and the next trade was rejected for it.
C12_Witness ==
    /\ last.op \in TradeOps
    /\ last.err = "AttestationSignerEthAddressNotSet"
    /\ gmtoken_manager_state.attestation_signer_secp = ZERO_ADDRESS
    /\ Trades > 0

\* The errors of verify_attestation and of the inspection it makes.
SignatureErrors ==
    {"AttestationSignerEthAddressNotSet", "MissingOrMismatchedSecpIx", "MalformedSecpIx",
     "WrongSigCount", "WrongDigestLen", "DigestMismatch", "AddressMismatch"}

\* The calls whose verification record is missing, malformed, wrongly
\* signed, or signed over other fields.
BadlySignedParams == {k \in CallParams \cup AccessParams : k[6] # 0}

\* r is the result of a call c whose id is used.
ShortCircuits(c, r, is_buy) ==
    /\ r.err \notin SignatureErrors
    /\ ((IF is_buy THEN ~MintingPaused ELSE ~RedemptionPaused) /\ PassesPreconditions(c))
          => r.err = "AttestationAlreadyUsed"

\* C13: the replay guard is consulted before the attestation is verified:
\* a trade whose attestation id is used, submitted with a missing,
\* malformed or wrongly signed verification record (or while the signer
\* is unset), never fails with an error of the verification, and fails
\* with AttestationAlreadyUsed once it passes the checks before the guard.
C13_ReplayBeforeVerification ==
    /\ \A k \in BadlySignedParams :
        IsSome(attestation[k[2]]) =>
          /\ ShortCircuits(MkCall(clock, BUY, k),
                           mint_with_usdon(Accounts, MkCall(clock, BUY, k)), TRUE)
          /\ ShortCircuits(MkCall(clock, BUY, k),
                           mint_with_usdc(Accounts, MkCall(clock, BUY, k)), TRUE)
          /\ ShortCircuits(MkCall(clock, SELL, k),
                           redeem_for_usdon(Accounts, MkCall(clock, SELL, k)), FALSE)
          /\ ShortCircuits(MkCall(clock, SELL, k),
                           redeem_for_usdc(Accounts, MkCall(clock, SELL, k)), FALSE)
    /\ (gmtoken_manager_state.attestation_signer_secp # TrustedSigner =>
          \A k \in AccessParams :
              IsSome(attestation[k[2]]) =>
                /\ ShortCircuits(MkCall(clock, BUY, k),
                                 mint_with_usdon(Accounts, MkCall(clock, BUY, k)), TRUE)
                /\ ShortCircuits(MkCall(clock, SELL, k),
                                 redeem_for_usdon(Accounts, MkCall(clock, SELL, k)), FALSE))

\* An id is used, the signer is unset so that no record can verify, and
\* the last trade was rejected as a replay.
C13_Witness ==
    /\ last.op \in TradeOps
    /\ last.err = "AttestationAlreadyUsed"
    /\ \E id \in AttestationIds : IsSome(attestation[id])
    /\ gmtoken_manager_state.attestation_signer_secp = ZERO_ADDRESS

\* The limiter record lim has no limit pair.
Unconfigured(lim) == IsNone(lim.rate_limit) \/ IsNone(lim.limit_window)

\* The call c reaches the limiters: it reaches the verification, its
\* attestation verifies and its price passes the sanity check.
ReachesLimiters(c, is_buy) ==
    /\ ReachesVerification(c, is_buy)
    /\ verify_attestation(Accounts, c, CHAIN_ID, IF is_buy THEN BUY ELSE SELL).ok
    /\ sanity_check(Accounts, c.price, clock).ok

\* r is the result of a call c that touches a limiter without limit pair.
Disabled(c, r, is_buy) ==
    (Unconfigured(token_limit_account) \/ Unconfigured(UserLimiter(c.user))) =>
        /\ ~r.ok
        /\ ReachesLimiters(c, is_buy) => r.err = "InvalidRateLimit"

\* C14: while the asset's limiter or the user's limiter lacks rate_limit
\* or limit_window, no mint and no redeem of that user succeeds, and a
\* trade that reaches the limiters fails with InvalidRateLimit.
C14_UnconfiguredLimiter ==
    /\ ForAllMints(LAMBDA c, r : Disabled(c, r, TRUE))
    /\ ForAllRedeems(LAMBDA c, r : Disabled(c, r, FALSE))

\* A trade was rejected by an unconfigured user limiter of a configured
\* asset, after another user has traded.
C14_Witness ==
    /\ last.op \in TradeOps
    /\ last.err = "InvalidRateLimit"
    /\ ~Unconfigured(token_limit_account)
    /\ \E u \in Users : Unconfigured(UserLimiter(u))
    /\ Trades > 0

\* The limiter record new is lim with at most the capacity and the time
\* of one direction changed.
OnlyDirection(lim, new, is_buy) ==
    IF is_buy
    THEN new = [lim EXCEPT !.mint_capacity_used = new.mint_capacity_used,
                           !.mint_last_updated = new.mint_last_updated]
    ELSE new = [lim EXCEPT !.redeem_capacity_used = new.redeem_capacity_used,
                           !.redeem_last_updated = new.redeem_last_updated]

\* r is the result of a call c: if it succeeded, the limiters changed in
\* the direction of the trade only, and no other user's limiter changed.
Independent(c, r, is_buy) ==
    r.ok =>
      /\ OnlyDirection(token_limit_account, r.st.tl, is_buy)
      /\ OnlyDirection(UserLimiter(c.user), Unwrap(r.st.ondo_user[c.user]), is_buy)
      /\ \A v \in Users \ {c.user} : r.st.ondo_user[v] = ondo_user[v]

\* C15: a successful mint changes, of the asset's limiter and of the
\* user's limiter, only mint_capacity_used and mint_last_updated; a
\* successful redeem changes only redeem_capacity_used and
\* redeem_last_updated.
C15_DirectionIndependence ==
    /\ ForAllMints(LAMBDA c, r : Independent(c, r, TRUE))
    /\ ForAllRedeems(LAMBDA c, r : Independent(c, r, FALSE))

\* A mint and a redeem have both executed, and each direction of the
\* asset's limiter holds its own usage and time.
C15_Witness ==
    /\ last.op \in TradeOps
    /\ last.err = "Ok"
    /\ Trades = 2
    /\ UnwrapOr(token_limit_account.mint_capacity_used, 0) > 0
    /\ UnwrapOr(token_limit_account.redeem_capacity_used, 0) > 0
    /\ token_limit_account.mint_last_updated # token_limit_account.redeem_last_updated

\* The execution id stored, 0 before the first trade.
ExecutionId(gm) == UnwrapOr(gm.execution_id, 0)

\* r is the result of a trade: a successful one stores and emits the
\* previous id plus one, a failed one emits nothing and stores nothing.
Numbered(r) ==
    IF r.ok
    THEN /\ r.emitted = ExecutionId(gmtoken_manager_state) + 1
         /\ r.st.gm.execution_id = Some(r.emitted)
    ELSE /\ r.emitted = 0
         /\ Commit(Accounts, r).gm.execution_id = gmtoken_manager_state.execution_id

\* r is the result of an administrative instruction.
KeepsId(r) == Commit(Accounts, r).gm.execution_id = gmtoken_manager_state.execution_id

\* No administrative instruction, whatever its arguments, changes the id.
AdminKeepsId ==
    /\ KeepsId(pause_global_minting(Accounts))
    /\ KeepsId(resume_global_minting(Accounts))
    /\ KeepsId(pause_global_redemption(Accounts))
    /\ KeepsId(resume_global_redemption(Accounts))
    /\ KeepsId(pause_gmtoken_minting(Accounts))
    /\ KeepsId(resume_gmtoken_minting(Accounts))
    /\ KeepsId(pause_gmtoken_redemption(Accounts))
    /\ KeepsId(resume_gmtoken_redemption(Accounts))
    /\ \A a \in Signers : KeepsId(set_attestation_signer_secp(Accounts, a))
    /\ \A o \in {-13 * SECONDS_PER_HOUR, 0, 14 * SECONDS_PER_HOUR} :
          KeepsId(set_trading_hours_offset(Accounts, o))
    /\ \A p \in {0, InitLastPrice, AltLastPrice} : KeepsId(set_last_price(Accounts, p))
    /\ \A u \in Users :
          /\ KeepsId(add_to_whitelist(Accounts, u))
          /\ KeepsId(remove_from_whitelist(Accounts, u))
          /\ KeepsId(set_ondo_user_limits(Accounts, u, InitUserRateLimit, InitLimitWindow))
          /\ \A rl \in UserRateLimits, lw \in LimitWindows :
                KeepsId(initialize_user(Accounts, u, rl, lw))
          /\ \A id \in AttestationIds :
                /\ KeepsId(close_attestation_account(Accounts, id, u))
                /\ KeepsId(batch_close_attestation_accounts(Accounts, <<id>>, u))
    /\ \A rl \in RateLimits, lw \in LimitWindows, durl \in UserRateLimits :
          KeepsId(set_token_limit(Accounts, rl, lw, durl, lw))

\* C16: every successful trade stores and emits the previous execution id
\* plus one (1 for the first trade); a failed trade and every
\* administrative instruction leave the id as it was; hence, step by step,
\* the id changes only by a successful trade and then by exactly one.
C16_ExecutionId ==
    /\ [](/\ ForAllMints(LAMBDA c, r : Numbered(r))
          /\ ForAllRedeems(LAMBDA c, r : Numbered(r))
          /\ AdminKeepsId)
    /\ [][IF last'.op \in TradeOps /\ last'.err = "Ok"
          THEN ExecutionId(gmtoken_manager_state') = ExecutionId(gmtoken_manager_state) + 1
          ELSE gmtoken_manager_state'.execution_id = gmtoken_manager_state.execution_id]_vars

\* Two trades have executed, the second numbered 2, and an administrative
\* instruction followed.
C16_Witness ==
    /\ gmtoken_manager_state.execution_id = Some(2)
    /\ last.op \notin TradeOps
    /\ last.err = "Ok"
    /\ MintingPaused

\* The adjusted time now + offset falls on a Saturday or Sunday: day 0 of
\* the epoch is a Thursday, and day + 3 counts from Monday.
Weekend(now, offset) == ((now + offset) \div SECONDS_PER_DAY + 3) % 7 >= 5

\* The accounts with the offset o stored.
WithOffset(o) == [Accounts EXCEPT !.gm.trading_hours_offset = o]

\* r is the result of a trade c made outside the trading hours.
Closed(c, r, is_buy) ==
    Weekend(clock, gmtoken_manager_state.trading_hours_offset) =>
        /\ ~r.ok
        /\ ((IF is_buy THEN ~MintingPaused ELSE ~RedemptionPaused)
             /\ c.user \in whitelist /\ c.amount > 0 /\ c.price > 0)
               => r.err = "OutsideMarketHours"

\* C17: check_is_valid_hours(now) succeeds iff
\* ((now + trading_hours_offset) div 86400 + 3) mod 7 < 5, and fails with
\* OutsideMarketHours otherwise; with offset 0 it rejects 2*86400 and
\* 4*86400 - 1 and accepts 2*86400 - 1 and 4*86400; a mint or redeem at a
\* rejected time fails, with OutsideMarketHours once it reaches the gate.
C17_TradingHours ==
    /\ \A o \in ValidOffsets, t \in HourTimes \cup {clock} :
          /\ check_is_valid_hours(WithOffset(o), t).ok <=> ~Weekend(t, o)
          /\ check_is_valid_hours(WithOffset(o), t).err \in {"Ok", "OutsideMarketHours"}
    /\ check_is_valid_hours(Accounts, clock).ok
          <=> ~Weekend(clock, gmtoken_manager_state.trading_hours_offset)
    /\ ~check_is_valid_hours(WithOffset(0), 2 * SECONDS_PER_DAY).ok
    /\ check_is_valid_hours(WithOffset(0), 2 * SECONDS_PER_DAY - 1).ok
    /\ ~check_is_valid_hours(WithOffset(0), 4 * SECONDS_PER_DAY - 1).ok
    /\ check_is_valid_hours(WithOffset(0), 4 * SECONDS_PER_DAY).ok
    /\ ForAllMints(LAMBDA c, r : Closed(c, r, TRUE))
    /\ ForAllRedeems(LAMBDA c, r : Closed(c, r, FALSE))

\* A trade was rejected at the first second of a Saturday of a shifted
\* calendar, after a trade had executed one offset earlier.
C17_Witness ==
    /\ last.op \in TradeOps
    /\ last.err = "OutsideMarketHours"
    /\ gmtoken_manager_state.trading_hours_offset # 0
    /\ (clock + gmtoken_manager_state.trading_hours_offset) = 2 * SECONDS_PER_DAY
    /\ Trades > 0

\* C18: the day index the gate computes is floor((now + offset) / 86400),
\* rounded toward minus infinity, and the weekday it derives is that of
\* the floor, for every time and every valid offset, the cases where
\* now + offset is negative included.
C18_FloorDivision ==
    \A o \in ValidOffsets, t \in HourTimes \cup {clock} :
        /\ days_since_epoch(o, t) = (t + o) \div SECONDS_PER_DAY
        /\ day_of_week(o, t) = ((t + o) \div SECONDS_PER_DAY + 3) % 7

\* C19: the stored trading_hours_offset lies in [-12 h, +14 h];
\* set_trading_hours_offset and initialize_gmtoken_manager accept an
\* offset iff it lies in this range, both ends included, and otherwise
\* fail with MaximumOffsetExceeded, the stored offset staying as it was.
C19_OffsetRange ==
    /\ -12 * SECONDS_PER_HOUR <= gmtoken_manager_state.trading_hours_offset
    /\ gmtoken_manager_state.trading_hours_offset <= 14 * SECONDS_PER_HOUR
    /\ \A o \in Offsets \cup {-13 * SECONDS_PER_HOUR, 15 * SECONDS_PER_HOUR} :
          IF -12 * SECONDS_PER_HOUR <= o /\ o <= 14 * SECONDS_PER_HOUR
          THEN /\ set_trading_hours_offset(Accounts, o).ok
               /\ Commit(Accounts, set_trading_hours_offset(Accounts, o))
                      .gm.trading_hours_offset = o
               /\ initialize_gmtoken_manager(FALSE, FALSE, TrustedSigner, o).ok
               /\ initialize_gmtoken_manager(FALSE, FALSE, TrustedSigner, o)
                      .val.trading_hours_offset = o
          ELSE /\ set_trading_hours_offset(Accounts, o).err = "MaximumOffsetExceeded"
               /\ Commit(Accounts, set_trading_hours_offset(Accounts, o))
                      .gm.trading_hours_offset = gmtoken_manager_state.trading_hours_offset
               /\ initialize_gmtoken_manager(FALSE, FALSE, TrustedSigner, o).err
                      = "MaximumOffsetExceeded"

\* An offset one second above the range was rejected while the upper end
\* of the range was stored.
C19_Witness ==
    /\ last = [op |-> "set_trading_hours_offset", err |-> "MaximumOffsetExceeded"]
    /\ gmtoken_manager_state.trading_hours_offset = 14 * SECONDS_PER_HOUR

\* The record of id exists and is older than the minimum age.
OldEnough(id) ==
    /\ IsSome(attestation[id])
    /\ clock > Unwrap(attestation[id]).created_at + MAX_ATTESTATION_EXPIRATION

\* The lamports held by the records of the ids of seq.
RECURSIVE Deposits(_)
Deposits(seq) ==
    IF seq = <<>> THEN 0
    ELSE Unwrap(attestation[Head(seq)]).lamports + Deposits(Tail(seq))

\* The ids of seq.
Range(seq) == {seq[i] : i \in DOMAIN seq}

\* r is the result of closing the records of the ids of seq with the
\* recipient u: if it succeeded, each record was older than the minimum
\* age and created by u, each record is gone, u holds the deposits, and
\* nobody else's lamports changed.
ClosedBy(seq, u, r) ==
    r.ok =>
      /\ \A id \in Range(seq) :
            /\ OldEnough(id)
            /\ Unwrap(attestation[id]).creator = u
            /\ IsNone(r.st.attestation[id])
      /\ \A id \in AttestationIds \ Range(seq) : r.st.attestation[id] = attestation[id]
      /\ r.st.bal["lamports"][u] = bal["lamports"][u] + Deposits(seq)
      /\ \A v \in (Users \cup {Vault}) \ {u} : r.st.bal["lamports"][v] = bal["lamports"][v]

\* C20: close_attestation_account and batch_close_attestation_accounts
\* succeed for a record only if now > created_at + 30 and the recipient is
\* its creator; a record of its creator that is at most 30 seconds old
\* (exactly 30 included) is refused with AttestationTooNew, an older one
\* is closed; the lamports of a closed record go to the recipient, its
\* creator; after a successful close the record is absent.
C20_ClosingAge ==
    /\ \A id \in AttestationIds, u \in Users :
          /\ ClosedBy(<<id>>, u, close_attestation_account(Accounts, id, u))
          /\ (IsSome(attestation[id]) /\ Unwrap(attestation[id]).creator = u) =>
                /\ close_attestation_account(Accounts, id, u).err
                      = IF OldEnough(id) THEN "Ok" ELSE "AttestationTooNew"
                /\ batch_close_attestation_accounts(Accounts, <<id>>, u).err
                      = IF OldEnough(id) THEN "Ok" ELSE "AttestationTooNew"
    /\ \A seq \in Batches, u \in Users :
          ClosedBy(seq, u, batch_close_attestation_accounts(Accounts, seq, u))

\* Both records, made by two trades, have been closed, the last by a
\* batch, and their creators hold the lamports they held at the start.
C20_Witness ==
    /\ last = [op |-> "batch_close_attestation_accounts", err |-> "Ok"]
    /\ Trades = 2
    /\ \A id \in AttestationIds : IsNone(attestation[id])
    /\ \A u \in Users : bal["lamports"][u] = InitLamports

\* The record of id cannot be closed to the recipient u: it does not
\* exist (its account is not the program's), u did not create it, or it
\* is too new.
Offending(id, u) ==
    \/ IsNone(attestation[id])
    \/ Unwrap(attestation[id]).creator # u
    \/ ~OldEnough(id)

\* C21: a batch_close_attestation_accounts call with an entry that is too
\* new, is not owned by the program or was created by somebody else than
\* the recipient fails, and it closes no record and moves no lamports,
\* the entries before the offending one included.
C21_BatchAllOrNothing ==
    /\ [](\A seq \in Batches, u \in Users :
            (\E id \in Range(seq) : Offending(id, u)) =>
               /\ ~batch_close_attestation_accounts(Accounts, seq, u).ok
               /\ Commit(Accounts, batch_close_attestation_accounts(Accounts, seq, u))
                     = Accounts)
    /\ [][(last'.op = "batch_close_attestation_accounts" /\ last'.err # "Ok") =>
             UNCHANGED <<attestation, bal, gmtoken_manager_state, token_limit_account,
                         sanity_check_account, ondo_user, whitelist, usdon_manager_state>>]_vars

\* A batch was refused for a record somebody else created while a record
\* of the recipient, listed before it or not, could be closed.
C21_Witness ==
    /\ last = [op |-> "batch_close_attestation_accounts", err |-> "InvalidUser"]
    /\ \E a \in AttestationIds, b \in AttestationIds :
          /\ OldEnough(a)
          /\ OldEnough(b)
          /\ Unwrap(attestation[a]).creator # Unwrap(attestation[b]).creator

\* The accounts st after the transaction x, run alone.
After(x, st) == Commit(st, Run(x, st))

\* The accounts when the two transactions were submitted.
Base == Unwrap(host.base)

\* The accounts and the results are those of x run before y.
Serial(x, y) ==
    /\ x.err = Run(x, Base).err
    /\ y.err = Run(y, After(x, Base)).err
    /\ Accounts = After(y, After(x, Base))

\* The notional of the transaction x if it executed in the direction
\* op, 0 otherwise.
Accepted(x, op) ==
    IF x.op = op /\ x.err = "Ok" THEN CeilNotional(x.k[3], x.k[4]) ELSE 0

\* The capacity used in the direction op grew by the notional of every
\* transaction accepted in that direction, and stays within the limit.
NoLostUpdate(op, before, after) ==
    /\ after = Some(Unwrap(before) + Accepted(host.tx[1], op) + Accepted(host.tx[2], op))
    /\ Unwrap(after) <= Unwrap(token_limit_account.rate_limit)

\* C22: two trades submitted at the same time never run at the same time;
\* once both have ended, the accounts and the two results are those of
\* running them one after the other in one of the two orders; the used
\* capacity of the asset's limiter holds the notional of both if both
\* were accepted (no update is lost) and stays within the limit; and if
\* they carry the same attestation id at most one succeeded.
C22_Serialisation ==
    /\ ~(\A t \in Slots : host.tx[t].stage = "running")
    /\ (\A t \in Slots : host.tx[t].stage = "done") =>
          /\ Serial(host.tx[1], host.tx[2]) \/ Serial(host.tx[2], host.tx[1])
          /\ NoLostUpdate("mint_with_usdon", Base.tl.mint_capacity_used,
                          token_limit_account.mint_capacity_used)
          /\ NoLostUpdate("redeem_for_usdon", Base.tl.redeem_capacity_used,
                          token_limit_account.redeem_capacity_used)
          /\ host.tx[1].k[2] = host.tx[2].k[2] =>
                ~(host.tx[1].err = "Ok" /\ host.tx[2].err = "Ok")

\* Two mints of different users, submitted together, were both accepted
\* and the asset's limiter holds the notional of both.
C22_Witness ==
    /\ \A t \in Slots : host.tx[t].stage = "done" /\ host.tx[t].err = "Ok"
                          /\ host.tx[t].op = "mint_with_usdon"
    /\ host.tx[1].k[1] # host.tx[2].k[1]
    /\ token_limit_account.mint_capacity_used =
          Some(CeilNotional(host.tx[1].k[3], host.tx[1].k[4]) +
               CeilNotional(host.tx[2].k[3], host.tx[2].k[4]))

\* The windows an administrator may pass, the zero window included.
WindowArgs == LimitWindows \cup {Some(0)}

\* The window w, if set, is not zero.
NonZero(w) == IsSome(w) => Unwrap(w) > 0

\* The record lim holds both fields of the limit pair.
Paired(lim) == IsSome(lim.rate_limit) /\ IsSome(lim.limit_window)

\* Exactly one of rate_limit and limit_window of lim is set.
HalfSet(lim) == IsSome(lim.rate_limit) # IsSome(lim.limit_window)

\* A call with a zero window fails with InvalidRateLimit.
ZeroWindowRejected(r, lw, dulw) ==
    (lw = Some(0) \/ dulw = Some(0)) => ~r.ok /\ r.err = "InvalidRateLimit"

\* C23: the windows of the asset's limiter are non-zero whenever they are
\* set, and its used capacities are set exactly when both rate_limit and
\* limit_window are; initialize_token_limit and set_token_limit reject a
\* zero window with InvalidRateLimit, and the rejected set_token_limit
\* leaves the accounts as they were.
C23_TokenLimitInvariant ==
    /\ NonZero(token_limit_account.limit_window)
    /\ NonZero(token_limit_account.default_user_limit_window)
    /\ IsSome(token_limit_account.mint_capacity_used) <=> Paired(token_limit_account)
    /\ IsSome(token_limit_account.redeem_capacity_used) <=> Paired(token_limit_account)
    /\ \A rl \in RateLimits, lw \in WindowArgs, durl \in UserRateLimits, dulw \in WindowArgs :
          /\ ZeroWindowRejected(initialize_token_limit(rl, lw, durl, dulw), lw, dulw)
          /\ ZeroWindowRejected(set_token_limit(Accounts, rl, lw, durl, dulw), lw, dulw)
          /\ (lw = Some(0) \/ dulw = Some(0)) =>
                Commit(Accounts, set_token_limit(Accounts, rl, lw, durl, dulw)) = Accounts

\* set_token_limit with a zero window was rejected on a limiter that holds
\* only one field of the pair and has no used capacities.
C23_Witness ==
    /\ last.op = "set_token_limit" /\ last.err = "InvalidRateLimit"
    /\ HalfSet(token_limit_account)
    /\ IsNone(token_limit_account.mint_capacity_used)
    /\ IsNone(token_limit_account.redeem_capacity_used)

SanityValid(sc) ==
    /\ sc.last_price > 0
    /\ sc.allowed_deviation_bps <= BASIS_POINTS_DIVISOR
    /\ sc.max_time_delay <= MAX_SECONDS_EXPIRATION

\* If bad, the call with the result r failed with the error e and left the
\* accounts as they were.
RejectedWith(bad, r, e) == bad => ~r.ok /\ r.err = e /\ Commit(Accounts, r) = Accounts

\* The error of an initialisation with the given values, "Ok" if none.
InitSanityError(p, b, d) ==
    IF b > BASIS_POINTS_DIVISOR THEN "InvalidPercentage"
    ELSE IF d > MAX_SECONDS_EXPIRATION THEN "InvalidMaxTimeDelay"
    ELSE IF p <= 0 THEN "InvalidPrice" ELSE "Ok"

\* C25: the sanity-check record always has last_price > 0,
\* allowed_deviation_bps <= 10000 and max_time_delay <= 365 days; an
\* initialisation or a setter call with a value outside these limits fails
\* with InvalidPrice, InvalidPercentage or InvalidMaxTimeDelay
\* respectively, and the failed setter leaves the accounts as they were.
C25_SanityCheckInvariant ==
    /\ SanityValid(sanity_check_account)
    /\ \A p \in LastPrices :
          RejectedWith(~(p > 0), set_last_price(Accounts, p), "InvalidPrice")
    /\ \A b \in DeviationsBps :
          RejectedWith(b > BASIS_POINTS_DIVISOR, set_allowed_deviation_bps(Accounts, b),
                       "InvalidPercentage")
    /\ \A d \in TimeDelays :
          RejectedWith(d > MAX_SECONDS_EXPIRATION, set_max_time_delay(Accounts, d),
                       "InvalidMaxTimeDelay")
    /\ \A p \in LastPrices, b \in DeviationsBps, d \in TimeDelays :
          /\ initialize_sanity_check(p, b, d, clock).err = InitSanityError(p, b, d)
          /\ initialize_sanity_check(p, b, d, clock).ok => SanityValid(initialize_sanity_check(p, b, d, clock).val)

\* A delay of one second more than 365 days was rejected on a record that
\* holds the largest delay and the largest deviation.
C25_Witness ==
    /\ last.op = "set_max_time_delay" /\ last.err = "InvalidMaxTimeDelay"
    /\ sanity_check_account.max_time_delay = MAX_SECONDS_EXPIRATION
    /\ sanity_check_account.allowed_deviation_bps = BASIS_POINTS_DIVISOR

\* The record a first trade worth n creates for a user.
FreshUser(n, is_buy) ==
    [rate_limit |-> token_limit_account.default_user_rate_limit,
     limit_window |-> token_limit_account.default_user_limit_window,
     mint_capacity_used |-> Some(IF is_buy THEN n ELSE 0),
     mint_last_updated |-> IF is_buy THEN Some(clock) ELSE None,
     redeem_capacity_used |-> Some(IF is_buy THEN 0 ELSE n),
     redeem_last_updated |-> IF is_buy THEN None ELSE Some(clock)]

\* r is the result of the call c of a user without a record: if it
\* succeeded, the record holds the asset's defaults and the notional of
\* this trade alone, which the default rate limit admits; if it failed, no
\* record is left.
FirstTrade(c, r, is_buy) ==
    IsNone(ondo_user[c.user]) =>
        IF r.ok
        THEN /\ r.st.ondo_user[c.user] = Some(FreshUser(CeilNotional(c.price, c.amount), is_buy))
             /\ CeilNotional(c.price, c.amount) <= Unwrap(token_limit_account.default_user_rate_limit)
        ELSE IsNone(Commit(Accounts, r).ondo_user[c.user])

\* r is the result of the call c of a user with a record: if it
\* succeeded, the record is the stored one stepped by the notional, its
\* limits, the used capacities and the times as stored.
LaterTrade(c, r, is_buy) ==
    IsSome(ondo_user[c.user]) /\ r.ok =>
        Stepped(Unwrap(ondo_user[c.user]), Unwrap(r.st.ondo_user[c.user]),
                CeilNotional(c.price, c.amount), is_buy)

\* C26: the first successful trade of a user creates the user record with
\* the asset's default_user_rate_limit and default_user_limit_window of
\* that moment and zero used capacity, and checks the trade against it;
\* a later trade steps the stored record without filling it in again; a
\* record appears only with a successful trade, and no later step, a
\* change of the asset's defaults included, changes its limits.
C26_LazyUserRecord ==
    /\ [](/\ ForAllMints(LAMBDA c, r : FirstTrade(c, r, TRUE) /\ LaterTrade(c, r, TRUE))
          /\ ForAllRedeems(LAMBDA c, r : FirstTrade(c, r, FALSE) /\ LaterTrade(c, r, FALSE)))
    /\ [][\A u \in Users :
            /\ IsNone(ondo_user[u]) /\ IsSome(ondo_user'[u]) =>
                  last'.op \in TradeOps /\ last'.err = "Ok"
            /\ IsSome(ondo_user[u]) =>
                  /\ IsSome(ondo_user'[u])
                  /\ Unwrap(ondo_user'[u]).rate_limit = Unwrap(ondo_user[u]).rate_limit
                  /\ Unwrap(ondo_user'[u]).limit_window = Unwrap(ondo_user[u]).limit_window]_vars

\* A user who has a record since a first trade traded again after the
\* asset's defaults were changed, and keeps the limits of the first trade.
C26_Witness ==
    /\ last.op \in TradeOps /\ last.err = "Ok"
    /\ \E u \in Users :
          /\ IsSome(ondo_user[u])
          /\ UserLimiter(u).rate_limit # token_limit_account.default_user_rate_limit
          /\ UserLimiter(u).limit_window # token_limit_account.default_user_limit_window
          /\ Used(UserLimiter(u), TRUE) > 0
          /\ Used(UserLimiter(u), FALSE) > 0

SanitySetters == {"set_last_price", "set_allowed_deviation_bps", "set_max_time_delay"}

\* The accounts after the call with the result r hold the sanity-check
\* record as it is.
KeepsSanityCheck(r) == Commit(Accounts, r).sc = sanity_check_account /\ r.st.sc = sanity_check_account

\* C27: no mint or redeem, accepted or rejected, changes the asset's
\* sanity-check record (last_price, allowed_deviation_bps, max_time_delay,
\* price_last_updated), whatever its price; the record changes only in a
\* step of set_last_price, set_allowed_deviation_bps or set_max_time_delay.
C27_TradesReadSanityCheck ==
    /\ [](/\ ForAllMints(LAMBDA c, r : KeepsSanityCheck(r))
          /\ ForAllRedeems(LAMBDA c, r : KeepsSanityCheck(r)))
    /\ [][sanity_check_account' # sanity_check_account =>
            last'.op \in SanitySetters /\ last'.err = "Ok"]_vars

\* A mint at a price 5% above the last price was accepted, and the last
\* price is as before.
C27_Witness ==
    /\ last.op = "mint_with_usdon" /\ last.err = "Ok"
    /\ sanity_check_account.last_price = InitLastPrice
    /\ token_limit_account.mint_capacity_used = Some(CeilNotional(1050000000, BaseAmount))

\* The price of the feed with 8 decimals, rounded down.
Rescaled(feed) ==
    IF feed.exponent >= -8 THEN feed.price * Pow10(8 + feed.exponent)
    ELSE feed.price \div Pow10(0 - feed.exponent - 8)

\* The error of the first condition of the guard the feed violates, "Ok"
\* if it violates none.
GuardError(feed) ==
    IF feed.key # USDC_PYTH_ORACLE_ADDRESS THEN "USDCOracleNotImplemented"
    ELSE IF feed.age > usdon_manager_state.oracle_price_max_age THEN "PriceTooOld"
    ELSE IF feed.price <= 0 THEN "InvalidPrice"
    ELSE IF feed.exponent >= 0 THEN "InvalidPriceExponent"
    ELSE IF feed.conf * 100 > feed.price * 1 THEN "ConfidenceThresholdExceeded"
    ELSE IF Rescaled(feed) < 98000000 THEN "USDCBelowMinimumPrice"
    ELSE "Ok"

\* r is the result of a call and good the result of the same call with a
\* feed that passes the guard: the feed decides nothing.
NotConsulted(r, good) == r = good

\* With the oracle price enabled the call fails if its feed violates the
\* guard, with the error of the violation if nothing else rejects it; in
\* every other case the feed decides nothing.
Consulted(c, r, good) ==
    IF usdon_manager_state.oracle_price_enabled /\ GuardError(c.feed) # "Ok"
    THEN /\ ~r.ok
         /\ good.ok => r.err = GuardError(c.feed)
         /\ Commit(Accounts, r) = Accounts
    ELSE NotConsulted(r, good)

\* C28: a mint paid with USDC and a redeem paid out in USDC consult the
\* price feed iff oracle_price_enabled is set, and a mint or redeem in
\* USDon never does; a consulted feed lets the trade proceed only if it is
\* the implemented feed, its price is at most oracle_price_max_age old,
\* positive, of negative exponent, with confidence * 100 <= price, and at
\* least 98_000_000 at 8 decimals; each violation aborts the trade with
\* its own error.
C28_OracleGuard ==
    \A k \in OracleParams :
        /\ Consulted(MkCall(clock, BUY, k),
                     mint_with_usdc(Accounts, MkCall(clock, BUY, k)),
                     mint_with_usdc(Accounts, [MkCall(clock, BUY, k) EXCEPT !.feed = GoodFeed]))
        /\ Consulted(MkCall(clock, SELL, k),
                     redeem_for_usdc(Accounts, MkCall(clock, SELL, k)),
                     redeem_for_usdc(Accounts, [MkCall(clock, SELL, k) EXCEPT !.feed = GoodFeed]))
        /\ NotConsulted(mint_with_usdon(Accounts, MkCall(clock, BUY, k)),
                        mint_with_usdon(Accounts, [MkCall(clock, BUY, k) EXCEPT !.feed = GoodFeed]))
        /\ NotConsulted(redeem_for_usdon(Accounts, MkCall(clock, SELL, k)),
                        redeem_for_usdon(Accounts, [MkCall(clock, SELL, k) EXCEPT !.feed = GoodFeed]))

\* After a trade that executed, a mint paid with USDC was rejected for a
\* feed price below the minimum.
C28_Witness ==
    /\ last = [op |-> "mint_with_usdc", err |-> "USDCBelowMinimumPrice"]
    /\ usdon_manager_state.oracle_price_enabled
    /\ Trades = 1

\* The errors of the conditions of the inspection that apply to the
\* transaction tx, for the digest and the signer expected.
SecpViolations(tx, digest, signer) ==
    (IF \/ tx.current_ix_idx <= 0
        \/ tx.prev.program_id # SECP256K1_PROGRAM
        \/ tx.prev.sig_ix # tx.current_ix_idx - 1
        \/ tx.prev.eth_ix # tx.current_ix_idx - 1
        \/ tx.prev.msg_ix # tx.current_ix_idx - 1
     THEN {"MissingOrMismatchedSecpIx"} ELSE {})
    \cup (IF tx.prev.num_sigs # 1 THEN {"WrongSigCount"} ELSE {})
    \cup (IF tx.prev.msg_len # 32 THEN {"WrongDigestLen"} ELSE {})
    \cup (IF \/ tx.prev.data_len < 12
             \/ tx.prev.msg_off + tx.prev.msg_len > tx.prev.data_len
             \/ tx.prev.eth_off + 20 > tx.prev.data_len
          THEN {"MalformedSecpIx"} ELSE {})
    \cup (IF tx.prev.msg # digest THEN {"DigestMismatch"} ELSE {})
    \cup (IF tx.prev.eth_addr # signer THEN {"AddressMismatch"} ELSE {})

\* r is the outcome of the inspection of tx.
SecpOutcome(tx, digest, signer, r) ==
    /\ r.ok <=> SecpViolations(tx, digest, signer) = {}
    /\ ~r.ok => r.err \in SecpViolations(tx, digest, signer)
    /\ (tx.current_ix_idx <= 0 \/ tx.prev.program_id # SECP256K1_PROGRAM) =>
          r.err = "MissingOrMismatchedSecpIx"
    /\ (/\ SecpViolations(tx, digest, signer) \subseteq {"DigestMismatch", "AddressMismatch"}
        /\ tx.prev.msg # digest) => r.err = "DigestMismatch"

\* The fields of the quote probed: a mint of u1 now.
ProbeQuote ==
    Fields("u1", "a1", BUY, InitLastPrice, BaseAmount, clock + MAX_ATTESTATION_EXPIRATION)

\* C29: the inspection of the signature record accepts iff the record is
\* the instruction right before the trade, issued by the secp256k1
\* program, with one signature, a digest of 32 bytes, offsets inside the
\* record, the three instruction indices naming the record itself, the
\* digest computed from the call and the address of the trusted signer;
\* otherwise it fails with the error of a condition that is violated
\* (MissingOrMismatchedSecpIx, WrongSigCount, WrongDigestLen,
\* MalformedSecpIx, DigestMismatch, AddressMismatch), and with
\* DigestMismatch when the digest differs and at most the address differs
\* too.
C29_SignatureInspection ==
    \A i \in {0, 1}, p \in {SECP256K1_PROGRAM, "11111111111111111111111111111111"},
       dl \in {0, 11, 129}, n \in {1, 2}, ml \in {31, 32}, mo \in {97, 98}, eo \in {12, 110},
       x \in {<<0, 0, 0>>, <<1, 0, 0>>, <<0, 1, 0>>, <<0, 0, 1>>},
       m \in {HashOf(ProbeQuote), HashOf(Tampered(ProbeQuote, 7))},
       a \in {TrustedSigner, OtherSigner} :
        SecpOutcome([current_ix_idx |-> i,
                     prev |-> [program_id |-> p, data_len |-> dl, num_sigs |-> n,
                               sig_ix |-> x[1], eth_ix |-> x[2], msg_ix |-> x[3],
                               eth_off |-> eo, msg_off |-> mo, msg_len |-> ml,
                               msg |-> m, eth_addr |-> a, attested |-> ProbeQuote]],
                    HashOf(ProbeQuote), gmtoken_manager_state.attestation_signer_secp,
                    verify_secp256k1_ix(
                        [current_ix_idx |-> i,
                         prev |-> [program_id |-> p, data_len |-> dl, num_sigs |-> n,
                                   sig_ix |-> x[1], eth_ix |-> x[2], msg_ix |-> x[3],
                                   eth_off |-> eo, msg_off |-> mo, msg_len |-> ml,
                                   msg |-> m, eth_addr |-> a, attested |-> ProbeQuote]],
                        HashOf(ProbeQuote), gmtoken_manager_state.attestation_signer_secp))

\* With another signer trusted, a trade whose record holds the trusted
\* signer's signature of other fields failed with DigestMismatch.
C29_Witness ==
    /\ last.op \in TradeOps /\ last.err = "DigestMismatch"
    /\ gmtoken_manager_state.attestation_signer_secp = OtherSigner

\* The elapsed times probed for a window w: the first seconds, the middle
\* and the end of the window with its neighbours, and twice the window.
ElapsedProbes(w) ==
    {e \in 0..2 : e <= w + 1} \cup {w \div 2, w - 1, w, w + 1, 2 * w}

\* The windows, used capacities and rate limits probed, next to those of
\* the limiters of the state.
DecayWindows == {1, 7, InitLimitWindow}
DecayUsed == {0, 1, BaseAmount, InitRateLimit}
DecayRateLimits == {0, 1, InitRateLimit}

\* For the window w, the capacity used and the rate limit rate, the
\* capacity still in use does not grow with the elapsed time, is 0 from
\* the end of the window on, and is not computed for a negative time.
DecayMonotone(w, used, rate) ==
    /\ \A e1 \in ElapsedProbes(w), e2 \in ElapsedProbes(w) :
          e1 <= e2 =>
            /\ calculate_capacity_used(e1, w, used, rate).ok
            /\ calculate_capacity_used(e2, w, used, rate).ok
            /\ calculate_capacity_used(e2, w, used, rate).val
                  <= calculate_capacity_used(e1, w, used, rate).val
    /\ \A e \in ElapsedProbes(w) :
          e >= w => calculate_capacity_used(e, w, used, rate) = OkV(0)
    /\ \A e \in {-1, 0 - w} :
          calculate_capacity_used(e, w, used, rate) = ErrV("NegativeTimeSinceLastUpdate")

\* The limiter records of the state that are configured.
ConfiguredLimiters ==
    {lim \in {token_limit_account} \cup {UserLimiter(u) : u \in Users} : Configured(lim)}

\* C30: for a fixed window, used capacity and rate limit,
\* calculate_capacity_used does not increase with the elapsed time
\* (0 <= e1 <= e2 implies result(e2) <= result(e1)), is exactly 0 for
\* every elapsed time >= window, and rejects a negative elapsed time with
\* NegativeTimeSinceLastUpdate.
C30_DecayMonotone ==
    /\ \A lim \in ConfiguredLimiters, is_buy \in BOOLEAN :
          DecayMonotone(Unwrap(lim.limit_window), Used(lim, is_buy), Unwrap(lim.rate_limit))
    /\ \A w \in DecayWindows, used \in DecayUsed, rate \in DecayRateLimits :
          DecayMonotone(w, used, rate)

\* Half a window after its last mint the asset's limiter still holds a
\* part of the capacity it had used.
C30_Witness ==
    /\ IsSome(token_limit_account.mint_last_updated)
    /\ Elapsed(token_limit_account, TRUE) > 0
    /\ Elapsed(token_limit_account, TRUE) < Unwrap(token_limit_account.limit_window)
    /\ calculate_capacity_used(Elapsed(token_limit_account, TRUE),
                               Unwrap(token_limit_account.limit_window),
                               Used(token_limit_account, TRUE),
                               Unwrap(token_limit_account.rate_limit)).val
          \in 1..(Used(token_limit_account, TRUE) - 1)


(***************************************************************************)
(* The utility functions, called on their own.  util holds the arguments   *)
(* and the result of the last call, and in `of' the arguments of the call  *)
(* whose result was passed on to it.  Each behaviour makes one call, or    *)
(* one call and a second one on its result.                                *)
(***************************************************************************)
ArithValues == {0, 1, 2, 3, 7, 10, 32768, 46340, PRICE_SCALING_FACTOR, U64_MAX}
DecimalAmounts == {0, 1, 5, 999, 1000, 1001, 1073741, 1073742, PRICE_SCALING_FACTOR, U64_MAX}
Decimals == {0, 3, USDC_DECIMALS, USDC_PRICE_DECIMALS, GM_TOKEN_DECIMALS}
ElapsedTimes == {-1, 0, 1, 3, 6, 7, 30, InitLimitWindow - 1, InitLimitWindow, InitLimitWindow + 1}
CapacityWindows == {0} \cup DecayWindows

Call(fn, args, res, of) ==
    /\ util' = [fn |-> fn, args |-> args, res |-> res, of |-> of]
    /\ UNCHANGED <<gmtoken_manager_state, token_limit_account, sanity_check_account,
                   ondo_user, attestation, whitelist, usdon_manager_state, bal, clock,
                   last, host>>

MulDiv ==
    /\ util = NoCall
    /\ \E n0 \in ArithValues, n1 \in ArithValues, d \in ArithValues, round_up \in BOOLEAN :
          Call("mul_div", <<n0, n1, d, round_up>>, mul_div(n0, n1, d, round_up), <<>>)

NormalizeDecimals ==
    /\ util = NoCall
    /\ \E amount \in DecimalAmounts, from_decimals \in Decimals, to_decimals \in Decimals,
          round_up \in BOOLEAN :
          Call("normalize_decimals", <<amount, from_decimals, to_decimals, round_up>>,
               normalize_decimals(amount, from_decimals, to_decimals, round_up), <<>>)

\* The result of a conversion is converted back.
NormalizeBack ==
    /\ util.fn = "normalize_decimals"
    /\ util.of = <<>>
    /\ util.res.ok
    /\ \E round_up \in BOOLEAN :
          Call("normalize_decimals", <<util.res.val, util.args[3], util.args[2], round_up>>,
               normalize_decimals(util.res.val, util.args[3], util.args[2], round_up),
               util.args)

CalculateCapacityUsed ==
    /\ util = NoCall
    /\ \E e \in ElapsedTimes, w \in CapacityWindows, used \in DecayUsed, rate \in DecayRateLimits :
          Call("calculate_capacity_used", <<e, w, used, rate>>,
               calculate_capacity_used(e, w, used, rate), <<>>)

\* The decayed usage decays further, as it does from one trade to the next.
CalculateCapacityUsedAgain ==
    /\ util.fn = "calculate_capacity_used"
    /\ util.of = <<>>
    /\ util.res.ok
    /\ \E e \in ElapsedTimes :
          Call("calculate_capacity_used", <<e, util.args[2], util.res.val, util.args[4]>>,
               calculate_capacity_used(e, util.args[2], util.res.val, util.args[4]),
               util.args)

NextArith ==
    \/ MulDiv
    \/ NormalizeDecimals
    \/ NormalizeBack
    \/ CalculateCapacityUsed
    \/ CalculateCapacityUsedAgain

SpecArith == Init /\ [][NextArith]_vars

Called(fn) == util.fn = fn /\ util.of = <<>>
Chained(fn) == util.fn = fn /\ util.of # <<>>

\* C31 as stated: after no elapsed time the usage is returned unchanged,
\* whatever the window.
C31_ZeroElapsed ==
    (Called("calculate_capacity_used") /\ util.args[1] = 0) => util.res = OkV(util.args[3])

\* C31, amended: after no elapsed time the usage is returned unchanged for
\* every window > 0, every usage and every rate limit.
C31_ZeroElapsedInWindow ==
    (Called("calculate_capacity_used") /\ util.args[1] = 0 /\ util.args[2] > 0)
        => util.res = OkV(util.args[3])

\* calculate_capacity_used(0, 60, 150, 150) returned 150.
C31_Witness ==
    /\ Called("calculate_capacity_used")
    /\ util.args = <<0, InitLimitWindow, InitRateLimit, InitRateLimit>>
    /\ util.res = OkV(InitRateLimit)


\* The product a * b plus c can be written out in the integers of the
\* checker, which reach a little below 2 * U64_MAX.
Direct(a, b, c) == a = 0 \/ b <= ((U64_MAX - c) + (U64_MAX - 1)) \div a

\* C32: whenever mul_div succeeds with both rounding directions, rounding
\* down gives at most what rounding up gives, the two differ by at most 1,
\* and they are equal exactly when d divides n0 * n1.
C32_RoundingGap ==
    Called("mul_div") =>
        Then(mul_div(util.args[1], util.args[2], util.args[3], ~util.args[4]), LAMBDA other :
        Then(IF util.args[4] THEN other ELSE util.res, LAMBDA down :
        Then(IF util.args[4] THEN util.res ELSE other, LAMBDA up :
            (down.ok /\ up.ok) =>
                /\ down.val <= up.val
                /\ up.val - down.val <= 1
                /\ Direct(util.args[1] % util.args[3], util.args[2] % util.args[3], 0) =>
                      (down.val = up.val <=>
                          ((util.args[1] % util.args[3]) * (util.args[2] % util.args[3]))
                              % util.args[3] = 0))))

\* mul_div(7, 3, 2, true) returned 11, one more than rounding down, and
\* mul_div(7, 10, 2, true) = 35 is what rounding down gives.
C32_Witness ==
    /\ Called("mul_div")
    /\ util.args = <<7, 3, 2, TRUE>>
    /\ util.res = OkV(11)
    /\ mul_div(7, 3, 2, FALSE) = OkV(10)
    /\ mul_div(7, 10, 2, TRUE) = mul_div(7, 10, 2, FALSE)

\* What mul_div is to return for a dividend p * d + r (r written out) with
\* the round-up addend c: the quotient, or MathOverflow above U64_MAX.
Quotient(p, r, d, c) ==
    IF p > U64_MAX \/ (r + c) \div d > U64_MAX - p THEN ErrV("MathOverflow")
    ELSE OkV(p + ((r + c) \div d))

Addend(d, round_up) == IF round_up THEN d - 1 ELSE 0

\* C33: mul_div fails with DivideByZero exactly when d = 0; otherwise it
\* returns floor(n0 * n1 / d), or ceil(n0 * n1 / d) when rounding up, also
\* when n0 * n1 itself exceeds U64_MAX, and fails with MathOverflow exactly
\* when that value exceeds U64_MAX.
C33_MulDivExact ==
    Called("mul_div") =>
        Then(util.args[1], LAMBDA n0 : Then(util.args[2], LAMBDA n1 :
        Then(util.args[3], LAMBDA d :
            /\ (util.res.err = "DivideByZero") <=> (d = 0)
            /\ util.res.err \in {"Ok", "DivideByZero", "MathOverflow"}
            /\ (d # 0 /\ Direct(n0, n1, Addend(d, util.args[4]))) =>
                  util.res = Quotient(0, n0 * n1, d, Addend(d, util.args[4]))
            /\ (d # 0 /\ n0 % d = 0 /\ Direct(n0 \div d, n1, 0)) =>
                  util.res = Quotient((n0 \div d) * n1, 0, d, 0)
            /\ (d # 0 /\ n1 % d = 0 /\ Direct(n1 \div d, n0, 0)) =>
                  util.res = Quotient((n1 \div d) * n0, 0, d, 0))))

\* mul_div(10^9, U64_MAX, 10^9, false) returned U64_MAX, although the
\* product exceeds U64_MAX; 46340 * 46340 / 1 overflows and a zero divisor
\* is rejected.
C33_Witness ==
    /\ Called("mul_div")
    /\ util.args = <<PRICE_SCALING_FACTOR, U64_MAX, PRICE_SCALING_FACTOR, FALSE>>
    /\ util.res = OkV(U64_MAX)
    /\ mul_div(46340, 46340, 1, FALSE) = ErrV("MathOverflow")
    /\ mul_div(7, 3, 0, TRUE) = ErrV("DivideByZero")


Distance(x, y) == IF x >= y THEN x - y ELSE y - x

\* C34 as stated: converting an amount from a to b decimals and back gives
\* an amount within one unit of it.
C34_RoundTripWithinOne ==
    (Chained("normalize_decimals") /\ util.res.ok) => Distance(util.res.val, util.of[1]) <= 1

\* C34, amended: converting an amount x from a to b decimals and back,
\* without overflow, gives x when a <= b and an amount less than 10^(a-b)
\* away from x when a > b, whatever the two rounding flags.
C34_RoundTrip ==
    (Chained("normalize_decimals") /\ util.res.ok) =>
        IF util.of[2] <= util.of[3] THEN util.res.val = util.of[1]
        ELSE Distance(util.res.val, util.of[1]) < Pow10(util.of[2] - util.of[3])

\* 1001 at 3 decimals was rounded up to 2 at 0 decimals and came back as
\* 2000; 5 at 6 decimals went to 5000 at 9 decimals and came back as 5.
C34_Witness ==
    /\ Chained("normalize_decimals")
    /\ util.of = <<1001, 3, 0, TRUE>>
    /\ util.args[1] = 2
    /\ util.res = OkV(2000)
    /\ normalize_decimals(normalize_decimals(5, 6, 9, FALSE).val, 9, 6, TRUE) = OkV(5)


\* C38: for a window > 0 and elapsed times e1, e2 >= 0, decaying a usage
\* over e1 and the result over e2 leaves at least what one decay over
\* e1 + e2 leaves.
C38_SplitDecay ==
    (Chained("calculate_capacity_used") /\ util.args[2] > 0 /\ util.of[1] >= 0
        /\ util.args[1] >= 0) =>
        /\ util.res.ok
        /\ util.res.val >= calculate_capacity_used(util.of[1] + util.args[1], util.args[2],
                                                   util.of[3], util.args[4]).val

\* A usage of 150 decayed twice over one second of a 60 s window at rate
\* 150 is 146, decayed once over two seconds 145.
C38_Witness ==
    /\ Chained("calculate_capacity_used")
    /\ util.of = <<1, InitLimitWindow, InitRateLimit, InitRateLimit>>
    /\ util.args[1] = 1
    /\ util.res.val > calculate_capacity_used(2, InitLimitWindow, InitRateLimit, InitRateLimit).val


(***************************************************************************)
(* Replays.  The signer issues one attestation per id, with a fixed        *)
(* expiration; anybody submits it, at any time and on either side, and     *)
(* closes records.                                                         *)
(***************************************************************************)
AttestationExpiration(id) ==
    IF id = "a1" THEN StartTime + MAX_ATTESTATION_EXPIRATION ELSE MaxTime + 1

\* The attestation of id, submitted by u at the time now.
Resubmission(u, id, now) ==
    <<u, id, InitLastPrice, BaseAmount, AttestationExpiration(id) - now, 0, 0>>

ReplayParams == {Resubmission(u, id, clock) : u \in Users, id \in AttestationIds}

NextReplay ==
    \/ MintWithUsdon(ReplayParams)
    \/ RedeemForUsdon(ReplayParams)
    \/ CloseAttestationAccount
    \/ BatchCloseAttestationAccounts
    \/ Tick

SpecReplay == Init /\ [][NextReplay]_vars

\* Every submission of the attestation of id fails, and fails as expired
\* when its record does not exist.
Refused(id) ==
    \A u \in Users :
        /\ ~mint_with_usdon(Accounts, MkCall(clock, BUY, Resubmission(u, id, clock))).ok
        /\ ~redeem_for_usdon(Accounts, MkCall(clock, SELL, Resubmission(u, id, clock))).ok
        /\ IsNone(attestation[id]) =>
              /\ mint_with_usdon(Accounts, MkCall(clock, BUY, Resubmission(u, id, clock))).err
                    = "AttestationExpired"
              /\ redeem_for_usdon(Accounts, MkCall(clock, SELL, Resubmission(u, id, clock))).err
                    = "AttestationExpired"

\* C35: once an attestation (a fixed id and expiration) has been executed,
\* which leaves its record, every later submission of it fails, also
\* after its record has been closed: a record is closed only at a time
\* > created_at + 30 >= expiration, and a closed record never comes back.
C35_NoReplay ==
    \A id \in AttestationIds :
        [](IsSome(attestation[id]) =>
              /\ Unwrap(attestation[id]).created_at + MAX_ATTESTATION_EXPIRATION
                    >= AttestationExpiration(id)
              /\ [](/\ Refused(id)
                    /\ IsNone(attestation[id]) => [](IsNone(attestation[id]))))

\* The attestation a1 was executed, its record was closed, and its
\* resubmission has just failed as expired.
C35_Witness ==
    /\ last.op \in {"mint_with_usdon", "redeem_for_usdon"}
    /\ last.err = "AttestationExpired"
    /\ Trades = 1
    /\ \A id \in AttestationIds : IsNone(attestation[id])
    /\ clock > AttestationExpiration("a1")
    /\ clock < AttestationExpiration("a2")


\* The usage stored in the limiter lim is within its rate limit, in the
\* given direction.
WithinLimit(lim, is_buy) ==
    (Configured(lim) /\ IsSome(IF is_buy THEN lim.mint_capacity_used ELSE lim.redeem_capacity_used))
        => Used(lim, is_buy) <= Unwrap(lim.rate_limit)

\* A trade worth n that the limiter lim accepts finds its decayed usage
\* below the rate limit and does not push it above.
Fitting(lim, n, is_buy) ==
    Configured(lim) =>
        /\ Decayed(lim, is_buy) < Unwrap(lim.rate_limit)
        /\ Decayed(lim, is_buy) + n <= Unwrap(lim.rate_limit)

\* The result r of the trade c is within both limiters.
Bounded(c, r, is_buy) ==
    r.ok =>
        /\ Fitting(token_limit_account, CeilNotional(c.price, c.amount), is_buy)
        /\ Fitting(UserLimiter(c.user), CeilNotional(c.price, c.amount), is_buy)
        /\ WithinLimit(r.st.tl, is_buy)
        /\ WithinLimit(Unwrap(r.st.ondo_user[c.user]), is_buy)

\* C36: while no administrator changes a limiter's rate_limit and window,
\* the usage stored in the asset's limiter and in every user's limiter is
\* at most its rate_limit in both directions; a trade is accepted only if
\* the decayed usage of both limiters is below their rate_limit and the
\* trade does not push it above.
C36_CapacityBound ==
    /\ \A is_buy \in BOOLEAN :
          /\ WithinLimit(token_limit_account, is_buy)
          /\ \A u \in Users : IsSome(ondo_user[u]) => WithinLimit(Unwrap(ondo_user[u]), is_buy)
    /\ \A k \in TradeParams :
          /\ Bounded(MkCall(clock, BUY, k), mint_with_usdon(Accounts, MkCall(clock, BUY, k)), TRUE)
          /\ Bounded(MkCall(clock, BUY, k), mint_with_usdc(Accounts, MkCall(clock, BUY, k)), TRUE)
          /\ Bounded(MkCall(clock, SELL, k), redeem_for_usdon(Accounts, MkCall(clock, SELL, k)), FALSE)
          /\ Bounded(MkCall(clock, SELL, k), redeem_for_usdc(Accounts, MkCall(clock, SELL, k)), FALSE)

\* A mint has just filled the limiter of u1 to its rate limit; a further
\* mint of u1 with the unused attestation is refused by the limiter.
C36_Witness ==
    /\ last = [op |-> "mint_with_usdon", err |-> "Ok"]
    /\ IsSome(ondo_user["u1"])
    /\ Used(Unwrap(ondo_user["u1"]), TRUE) = Unwrap(Unwrap(ondo_user["u1"]).rate_limit)
    /\ Decayed(Unwrap(ondo_user["u1"]), TRUE) = Unwrap(Unwrap(ondo_user["u1"]).rate_limit)
    /\ \E id \in AttestationIds :
          /\ IsNone(attestation[id])
          /\ mint_with_usdon(Accounts,
                 MkCall(clock, BUY, <<"u1", id, InitLastPrice, BaseAmount,
                                      MAX_ATTESTATION_EXPIRATION, 0, 0>>)).err = "InvalidRateLimit"


(***************************************************************************)
(* The order of the checks: the manager starts with any pause flags and    *)
(* whitelist, on a Friday or a Saturday; the asset is paused and resumed,  *)
(* users are whitelisted and removed, and users submit calls whose amount, *)
(* price and expiration are valid or not, in every combination.            *)
(***************************************************************************)
OrderParams ==
    {<<u, id, p, a, d, 0, 0>> :
        u \in Users, id \in AttestationIds, p \in {0, InitLastPrice}, a \in {0, BaseAmount},
        d \in {0, MAX_ATTESTATION_EXPIRATION, MAX_ATTESTATION_EXPIRATION + 1}}

InitOrder ==
    \E rp \in BOOLEAN, mp \in BOOLEAN, wl \in SUBSET Users,
       t \in {StartTime, 2 * SECONDS_PER_DAY} :
        InitialState(initialize_gmtoken_manager(rp, mp, TrustedSigner, 0).val,
                     InitTokenLimit, wl, t)

NextOrder ==
    \/ MintWithUsdon(OrderParams)
    \/ RedeemForUsdon(OrderParams)
    \/ PauseGmtokenMinting
    \/ ResumeGmtokenMinting
    \/ PauseGmtokenRedemption
    \/ ResumeGmtokenRedemption
    \/ AddToWhitelist
    \/ RemoveFromWhitelist

SpecOrder == InitOrder /\ [][NextOrder]_vars

\* The error of the first check of the claim's order that the call c
\* fails, "" if it passes them all.
FirstFailure(c, is_buy) ==
    IF is_buy /\ gmtoken_manager_state.minting_paused THEN "GMTokenMintingPaused"
    ELSE IF ~is_buy /\ gmtoken_manager_state.redemption_paused THEN "GMTokenRedemptionPaused"
    ELSE IF is_buy /\ token_limit_account.minting_paused THEN "GMTokenMintingPaused"
    ELSE IF ~is_buy /\ token_limit_account.redemption_paused THEN "GMTokenRedemptionPaused"
    ELSE IF c.user \notin whitelist THEN "UserNotWhitelisted"
    ELSE IF c.amount <= 0 THEN "RequireGtViolated"
    ELSE IF c.price <= 0 THEN "RequireGtViolated"
    ELSE IF Weekend(clock, gmtoken_manager_state.trading_hours_offset) THEN "OutsideMarketHours"
    ELSE IF clock >= c.expiration THEN "AttestationExpired"
    ELSE IF c.expiration - clock > MAX_ATTESTATION_EXPIRATION THEN "AttestationExpirationTooLarge"
    ELSE ""

EarlyErrors ==
    {"GMTokenMintingPaused", "GMTokenRedemptionPaused", "UserNotWhitelisted",
     "RequireGtViolated", "OutsideMarketHours", "AttestationExpired",
     "AttestationExpirationTooLarge"}

\* r, the result of the call c, reports the first failing check, with no
\* user record and no replay-guard record created by then.
Ordered(c, r, is_buy) ==
    IF FirstFailure(c, is_buy) = "" THEN r.err \notin EarlyErrors
    ELSE /\ r.err = FirstFailure(c, is_buy)
         /\ r.st.ondo_user = ondo_user
         /\ r.st.attestation = attestation

PayoutPrices == {950000000, InitLastPrice}
PayoutAmounts == {1, 2, BaseAmount}

PayoutParams ==
    {<<u, id, p, a, MAX_ATTESTATION_EXPIRATION, 0, 0>> :
        u \in Users, id \in AttestationIds, p \in PayoutPrices, a \in PayoutAmounts}

NextPayout ==
    \/ RedeemForUsdon(PayoutParams)
    \/ RedeemForUsdc(PayoutParams)
    \/ Tick

SpecPayout == Init /\ [][NextPayout]_vars

\* The redeem c passes every check that precedes the payout.
Clears(c) ==
    /\ ~RedemptionPaused
    /\ PassesPreconditions(c)
    /\ IsNone(attestation[c.attestation_id])
    /\ Attested(c, SELL)
    /\ InBand(c.price)
    /\ Fresh
    /\ CeilNotional(c.price, c.amount) <= Available(token_limit_account, FALSE)
    /\ CeilNotional(c.price, c.amount) <= Available(UserLimiter(c.user), FALSE)

\* r is the result of a redeem without payout: it fails, with
\* InvalidAmount if the redeem came as far as the payout.
Unpaid(c, r) ==
    /\ ~r.ok
    /\ Clears(c) => r.err = "InvalidAmount"

\* C39: a redeem whose payout floor(price * amount / 10^9) is 0 fails,
\* with InvalidAmount, and so does a redeem for USDC whose payout rounded
\* down to the decimals of USDC is 0; such a redeem burns nothing and
\* leaves the limiters as they were.
C39_NoEmptyRedemption ==
    /\ [](\A k \in PayoutParams :
            /\ FloorNotional(k[3], k[4]) = 0 =>
                  Unpaid(MkCall(clock, SELL, k),
                         redeem_for_usdon(Accounts, MkCall(clock, SELL, k)))
            /\ FloorNotional(k[3], k[4]) \div Pow10(USDON_DECIMALS - USDC_DECIMALS) = 0 =>
                  Unpaid(MkCall(clock, SELL, k),
                         redeem_for_usdc(Accounts, MkCall(clock, SELL, k))))
    /\ [][(last'.op \in {"redeem_for_usdon", "redeem_for_usdc"} /\ last'.err = "InvalidAmount")
             => UNCHANGED <<bal, token_limit_account, ondo_user, attestation,
                            gmtoken_manager_state>>]_vars

\* A redeem for USDon was refused with InvalidAmount: every record and
\* balance is as at the start, a redeem of one unit at 0.95 pays nothing
\* and a redeem of 50 units for USDC rounds to nothing.
C39_Witness ==
    /\ last = [op |-> "redeem_for_usdon", err |-> "InvalidAmount"]
    /\ \A u \in Users : bal["gm"][u] = InitGm /\ IsNone(ondo_user[u])
    /\ Used(token_limit_account, FALSE) = 0
    /\ FloorNotional(950000000, 1) = 0
    /\ redeem_for_usdc(Accounts, MkCall(clock, SELL,
           <<"u1", "a1", InitLastPrice, BaseAmount, MAX_ATTESTATION_EXPIRATION, 0, 0>>)).err
          = "InvalidAmount"


(***************************************************************************)
(* The users' limiter windows: the administrator creates user records     *)
(* with any window, zero included, and sets their limits; users trade,     *)
(* which creates the records that do not exist; time passes.               *)
(***************************************************************************)
UserWindows == LimitWindows \cup {Some(0)}

InitializeUserAnyWindow ==
    \E u \in Users, rl \in UserRateLimits, lw \in UserWindows :
        Invoke("initialize_user", initialize_user(Accounts, u, rl, lw))

InitUserWindows ==
    \E durl \in UserRateLimits, dulw \in LimitWindows :
        InitialState(initialize_gmtoken_manager(FALSE, FALSE, TrustedSigner, 0).val,
                     initialize_token_limit(Some(InitRateLimit), Some(InitLimitWindow),
                                            durl, dulw).val,
                     Users, StartTime)

NextUserWindows ==
    \/ InitializeUserAnyWindow
    \/ SetOndoUserLimits
    \/ MintWithUsdon(LimitParams)
    \/ RedeemForUsdon(LimitParams)
    \/ Tick

SpecUserWindows == InitUserWindows /\ [][NextUserWindows]_vars

\* C40: a user record whose limit_window is set has limit_window > 0,
\* however it was created (initialize_user, a first trade) or configured
\* (set_ondo_user_limits).
C40_UserWindowPositive ==
    \A u \in Users :
        (IsSome(ondo_user[u]) /\ IsSome(Unwrap(ondo_user[u]).limit_window))
            => Unwrap(Unwrap(ondo_user[u]).limit_window) > 0

=============================================================================
